---- MODULE Spec2Model ----
(***************************************************************************)
(* Conversion-latency analysis of klaviyo-analysis.                        *)
(*                                                                         *)
(* Two implementations of the engine live in the repository and both are   *)
(* modelled, each from its own source:                                     *)
(*   - the web application's AnalysisService                               *)
(*     (frontend/src/services/analysis.service.ts), and                    *)
(*   - the analysis script (unnamed/part_000): processEvents,              *)
(*     calculateStatistics, generateCohortData, calculateDistribution.     *)
(*                                                                         *)
(* Representation of JavaScript values:                                    *)
(*   - a Date is [nan, day, tod]: nan for an Invalid Date, else the UTC    *)
(*     day number since 1970-01-01 and the millisecond within that day     *)
(*     (getTime() = day * MsPerDay + tod; the split keeps every number     *)
(*     inside TLC's 32-bit integers);                                      *)
(*   - "T | null" is the empty tuple for null/undefined and <<v>> for v;   *)
(*   - a Map is the sequence of its [key, value] entries in insertion      *)
(*     order, which is the order Map iteration uses;                       *)
(*   - a non-integer number (a rate, a mean) is the exact fraction         *)
(*     [num, den];                                                         *)
(*   - local time is UTC.                                                  *)
(***************************************************************************)
EXTENDS Integers, Sequences, FiniteSets, TLC

\* ---------------------------------------------------------------- bounds
\* Most events over both input lists of one run of the engine.
MaxEvents == 3
\* Most records of a record list built one record at a time and handed
\* directly to the statistics and cohort functions.
MaxProfiles == 4

\* ------------------------------------------------------ program constants
\* 1000 * 60 * 60 * 24
MsPerDay == 86400000
MsPerHour == 60 * 60 * 1000
SecondsPerDay == 24 * 60 * 60

\* ------------------------------------------------------------ JS values
NULL == <<>>
Some(v) == <<v>>

InvalidDate == [nan |-> TRUE, day |-> 0, tod |-> 0]
MkDate(day, tod) == [nan |-> FALSE, day |-> day, tod |-> tod]

\* a < b on Dates (valueOf comparison; any comparison with NaN is false).
DateLT(a, b) ==
  /\ ~a.nan
  /\ ~b.nan
  /\ \/ a.day < b.day
     \/ a.day = b.day /\ a.tod < b.tod

\* a > b on Dates.
DateGT(a, b) == DateLT(b, a)

\* a.getTime() >= b.getTime()
DateGE(a, b) ==
  /\ ~a.nan
  /\ ~b.nan
  /\ ~DateLT(a, b)

\* a.getTime() - b.getTime(), for valid dates.
DiffMs(a, b) == (a.day - b.day) * MsPerDay + (a.tod - b.tod)

\* Math.floor(n / d) for an integer n and d > 0.
MathFloor(n, d) == n \div d

\* Math.round(n / d) for an integer n and d > 0: floor(n/d + 1/2).
MathRound(n, d) == (2 * n + d) \div (2 * d)

\* ------------------------------------------------------------ calendar
\* The civil date [y, m, d] of a UTC day number (proleptic Gregorian).
CivilFromDays(z) ==
  LET zz == z + 719468
      era == zz \div 146097
      doe == zz - era * 146097
      yoe == (doe - doe \div 1460 + doe \div 36524 - doe \div 146096) \div 365
      doy == doe - (365 * yoe + yoe \div 4 - yoe \div 100)
      mp == (5 * doy + 2) \div 153
      d == doy - (153 * mp + 2) \div 5 + 1
      m == IF mp < 10 THEN mp + 3 ELSE mp - 9
  IN [y |-> yoe + era * 400 + (IF m <= 2 THEN 1 ELSE 0), m |-> m, d |-> d]

\* Date.UTC(y, m - 1, d) / MsPerDay: the day number of a civil date.
DaysFromCivil(y, m, d) ==
  LET yy == IF m <= 2 THEN y - 1 ELSE y
      era == yy \div 400
      yoe == yy - era * 400
      doy == (153 * (IF m > 2 THEN m - 3 ELSE m + 9) + 2) \div 5 + d - 1
      doe == yoe * 365 + yoe \div 4 - yoe \div 100 + doy
  IN era * 146097 + doe - 719468

\* getDay() / getUTCDay() of a day number: 0 is Sunday; day 0 was a Thursday.
DayOfWeek(day) == (day + 4) % 7

\* date.toISOString().split('T')[0] of a valid Date: the text YYYY-MM-DD,
\* kept as its three numbers.
ToISODate(date) ==
  LET c == CivilFromDays(date.day) IN <<c.y, c.m, c.d>>

\* new Date(text).getTime() / MsPerDay for a text YYYY-MM-DD.
ParseISODate(text) == DaysFromCivil(text[1], text[2], text[3])

\* a.localeCompare(b) < 0 on two texts YYYY-MM-DD.
ISODateBefore(a, b) ==
  \/ a[1] < b[1]
  \/ a[1] = b[1] /\ a[2] < b[2]
  \/ a[1] = b[1] /\ a[2] = b[2] /\ a[3] < b[3]

\* The day number of 2025-01-06, a Monday.
BaseDay == DaysFromCivil(2025, 1, 6)

\* new Date(s) for the datetime strings of the model's inputs; any other
\* string is not a date and gives an Invalid Date.
IsoTimes ==
  [s \in {"2025-01-06T00:00:00Z", "2025-01-06T12:00:00Z",
          "2025-01-06T23:00:00Z", "2025-01-07T13:00:00Z",
          "2025-01-16T00:00:00Z"} |->
     CASE s = "2025-01-06T00:00:00Z" -> MkDate(BaseDay, 0)
       [] s = "2025-01-06T12:00:00Z" -> MkDate(BaseDay, 12 * MsPerHour)
       [] s = "2025-01-06T23:00:00Z" -> MkDate(BaseDay, 23 * MsPerHour)
       [] s = "2025-01-07T13:00:00Z" -> MkDate(BaseDay + 1, 13 * MsPerHour)
       [] s = "2025-01-16T00:00:00Z" -> MkDate(BaseDay + 10, 0)]

NewDate(s) == IF s \in DOMAIN IsoTimes THEN IsoTimes[s] ELSE InvalidDate

\* new Date(timestamp * 1000) for a unix timestamp in seconds.
NewDateFromSeconds(ts) ==
  MkDate(ts \div SecondsPerDay, (ts % SecondsPerDay) * 1000)

\* ----------------------------------------------------------------- Map
MapHas(m, k) == \E i \in 1..Len(m) : m[i].key = k

\* Map.get: NULL (undefined) when the key is absent.
MapGet(m, k) ==
  IF MapHas(m, k)
  THEN Some(m[CHOOSE i \in 1..Len(m) : m[i].key = k].value)
  ELSE NULL

\* Map.set: an existing key keeps its position, a new key goes last.
MapSet(m, k, v) ==
  IF MapHas(m, k)
  THEN [i \in 1..Len(m) |-> IF m[i].key = k THEN [key |-> k, value |-> v] ELSE m[i]]
  ELSE Append(m, [key |-> k, value |-> v])

MapKeys(m) == {m[i].key : i \in 1..Len(m)}

\* ------------------------------------------------- AnalysisService: reduce
\* One iteration of the loop of processSubscriptionEvents.
SubscriptionStep(subscriptions, event) ==
  IF event.profile_id = "" THEN subscriptions
  ELSE IF event.datetime = "" THEN subscriptions
  ELSE LET subscriptionDate == NewDate(event.datetime)
           existing == MapGet(subscriptions, event.profile_id)
       IN IF existing = NULL \/ DateLT(subscriptionDate, existing[1])
          THEN MapSet(subscriptions, event.profile_id, subscriptionDate)
          ELSE subscriptions

RECURSIVE ProcessSubscriptionEventsFrom(_, _)
ProcessSubscriptionEventsFrom(subscriptions, events) ==
  IF events = <<>> THEN subscriptions
  ELSE ProcessSubscriptionEventsFrom(
         SubscriptionStep(subscriptions, Head(events)), Tail(events))

ProcessSubscriptionEvents(events) == ProcessSubscriptionEventsFrom(<<>>, events)

\* One iteration of the loop of processOrderEvents.
OrderStep(orders, event) ==
  IF event.profile_id = "" THEN orders
  ELSE IF event.datetime = "" THEN orders
  ELSE LET orderDate == NewDate(event.datetime)
           existing == MapGet(orders, event.profile_id)
       IN IF existing = NULL \/ DateLT(orderDate, existing[1])
          THEN MapSet(orders, event.profile_id, orderDate)
          ELSE orders

RECURSIVE ProcessOrderEventsFrom(_, _)
ProcessOrderEventsFrom(orders, events) ==
  IF events = <<>> THEN orders
  ELSE ProcessOrderEventsFrom(OrderStep(orders, Head(events)), Tail(events))

ProcessOrderEvents(events) == ProcessOrderEventsFrom(<<>>, events)

\* ------------------------------------------------------- script: reduce
\* event.datetime ? new Date(event.datetime)
\*   : event.timestamp ? new Date(event.timestamp * 1000) : null
EventDate(event) ==
  IF event.datetime # "" THEN Some(NewDate(event.datetime))
  ELSE IF event.timestamp # 0 THEN Some(NewDateFromSeconds(event.timestamp))
  ELSE NULL

\* One call of the forEach callback that fills subscriptionsByProfile or
\* ordersByProfile in processEvents.
ByProfileStep(byProfile, event) ==
  IF event.profile_id = "" THEN byProfile
  ELSE LET eventDate == EventDate(event)
       IN IF eventDate = NULL THEN byProfile
          ELSE IF \/ ~MapHas(byProfile, event.profile_id)
                  \/ DateLT(eventDate[1], MapGet(byProfile, event.profile_id)[1])
               THEN MapSet(byProfile, event.profile_id, eventDate[1])
               ELSE byProfile

RECURSIVE ByProfileFrom(_, _)
ByProfileFrom(byProfile, events) ==
  IF events = <<>> THEN byProfile
  ELSE ByProfileFrom(ByProfileStep(byProfile, Head(events)), Tail(events))

ByProfile(events) == ByProfileFrom(<<>>, events)

\* ------------------------------------------------- AnalysisService: match
\* The daysToFirstOrder of one subscriber in matchSubscriptionsToOrders;
\* orderDate is orders.get(profileID) || null.
ServiceDaysToFirstOrder(subscriptionDate, orderDate) ==
  IF orderDate # NULL /\ DateGT(orderDate[1], subscriptionDate)
  THEN Some(MathRound(DiffMs(orderDate[1], subscriptionDate), MsPerDay))
  ELSE NULL

MatchSubscriptionsToOrders(subscriptions, orders) ==
  [i \in 1..Len(subscriptions) |->
     LET profileID == subscriptions[i].key
         subscriptionDate == subscriptions[i].value
         orderDate == MapGet(orders, profileID)
     IN [profileID |-> profileID,
         firstSubscriptionDate |-> subscriptionDate,
         firstOrderDate |-> orderDate,
         daysToFirstOrder |-> ServiceDaysToFirstOrder(subscriptionDate, orderDate)]]

\* ------------------------------------------------------- script: match
\* The daysToFirstOrder of one subscriber in processEvents. With an Invalid
\* Date on either side the quotient is NaN; such a record fails the
\* inclusion test below and is never pushed, so NaN is written as 0 here.
ScriptDaysToFirstOrder(subscribedDate, firstOrderDate) ==
  IF firstOrderDate # NULL
  THEN IF subscribedDate.nan \/ firstOrderDate[1].nan THEN Some(0)
       ELSE Some(MathFloor(DiffMs(firstOrderDate[1], subscribedDate), MsPerDay))
  ELSE NULL

\* "Only include if subscription came before order (or no order)".
ScriptIncluded(subscribedDate, firstOrderDate) ==
  \/ firstOrderDate = NULL
  \/ DateGE(firstOrderDate[1], subscribedDate)

RECURSIVE MatchFrom(_, _, _)
MatchFrom(subscriptionsByProfile, ordersByProfile, i) ==
  IF i > Len(subscriptionsByProfile) THEN <<>>
  ELSE LET profileID == subscriptionsByProfile[i].key
           subscribedDate == subscriptionsByProfile[i].value
           firstOrderDate == MapGet(ordersByProfile, profileID)
           rest == MatchFrom(subscriptionsByProfile, ordersByProfile, i + 1)
       IN IF ScriptIncluded(subscribedDate, firstOrderDate)
          THEN <<[profileID |-> profileID,
                  subscribedDate |-> subscribedDate,
                  firstOrderDate |-> firstOrderDate,
                  daysToFirstOrder |->
                    ScriptDaysToFirstOrder(subscribedDate, firstOrderDate)]>>
               \o rest
          ELSE rest

\* processEvents(subscriptionEvents, orderEvents)
ProcessEvents(subscriptionEvents, orderEvents) ==
  MatchFrom(ByProfile(subscriptionEvents), ByProfile(orderEvents), 1)

\* ------------------------------------------------------ array helpers
RECURSIVE Insert(_, _)
Insert(sorted, x) ==
  IF sorted = <<>> THEN <<x>>
  ELSE IF x < Head(sorted) THEN <<x>> \o sorted
  ELSE <<Head(sorted)>> \o Insert(Tail(sorted), x)

\* The array left as it is: a sort that was forgotten.
Unsorted(a) == a

\* Array.prototype.sort((a, b) => a - b) on numbers.
RECURSIVE SortAsc(_)
SortAsc(a) == IF a = <<>> THEN <<>> ELSE Insert(SortAsc(Tail(a)), Head(a))

RECURSIVE Sum(_)
Sum(a) == IF a = <<>> THEN 0 ELSE Head(a) + Sum(Tail(a))

RECURSIVE SumSq(_)
SumSq(a) == IF a = <<>> THEN 0 ELSE Head(a) * Head(a) + SumSq(Tail(a))

\* The non-null, non-negative daysToFirstOrder values, in array order.
RECURSIVE DaysOf(_)
DaysOf(records) ==
  IF records = <<>> THEN <<>>
  ELSE LET d == Head(records).daysToFirstOrder
       IN IF d # NULL /\ d[1] >= 0
          THEN <<d[1]>> \o DaysOf(Tail(records))
          ELSE DaysOf(Tail(records))

\* How many records have a non-null daysToFirstOrder.
RECURSIVE CountWithDays(_)
CountWithDays(records) ==
  IF records = <<>> THEN 0
  ELSE (IF Head(records).daysToFirstOrder # NULL THEN 1 ELSE 0)
       + CountWithDays(Tail(records))

\* A number as an exact fraction; Zero is the number 0.
Frac(n, d) == [num |-> n, den |-> d]
Zero == Frac(0, 1)

\* The element at index Math.ceil(sorted.length * pct / 100) - 1: the other
\* nearest-rank convention.
AtCeilOrZero(sorted, pct) ==
  LET index == (Len(sorted) * pct + 99) \div 100 - 1
  IN IF 0 <= index /\ index < Len(sorted) THEN sorted[index + 1] ELSE 0

\* sorted[index] || 0, with index = Math.floor(sorted.length * pct / 100)
\* (pct / 100 is the literal 0.25, 0.5, 0.75, 0.9 or 0.95 of the source).
AtOrZero(sorted, pct) ==
  LET index == (Len(sorted) * pct) \div 100
  IN IF index < Len(sorted) THEN sorted[index + 1] ELSE 0

\* The variance reduce(sum + (d - mean)^2) / length as an exact fraction;
\* stdDev is its square root.
Variance(days) ==
  IF Len(days) > 0
  THEN Frac(Len(days) * SumSq(days) - Sum(days) * Sum(days), Len(days) * Len(days))
  ELSE Zero

\* --------------------------------------- AnalysisService: statistics
ServicePercentile(daysToOrder, pct) == AtOrZero(daysToOrder, pct)

ServiceMedian(daysToOrder) ==
  IF Len(daysToOrder) > 0 THEN daysToOrder[(Len(daysToOrder) \div 2) + 1] ELSE 0

ServiceConversionRate(withOrders, total) ==
  IF total > 0 THEN Frac(withOrders * 100, total) ELSE Zero

CalculateStatistics(profiles) ==
  LET withOrders == CountWithDays(profiles)
      daysToOrder == SortAsc(DaysOf(profiles))
  IN [totalSubscribers |-> Len(profiles),
      subscribersWithOrder |-> withOrders,
      conversionRate |-> ServiceConversionRate(withOrders, Len(profiles)),
      meanDaysToFirstOrder |->
        IF Len(daysToOrder) > 0 THEN Frac(Sum(daysToOrder), Len(daysToOrder)) ELSE Zero,
      medianDaysToFirstOrder |-> ServiceMedian(daysToOrder),
      variance |-> Variance(daysToOrder),
      percentiles |-> [p25 |-> ServicePercentile(daysToOrder, 25),
                       p75 |-> ServicePercentile(daysToOrder, 75),
                       p90 |-> ServicePercentile(daysToOrder, 90),
                       p95 |-> ServicePercentile(daysToOrder, 95)]]

\* ------------------------------------------------- script: statistics
\* The closure percentile(p) of calculateStatistics over its sorted copy.
ScriptPercentile(daysToOrder, pct) == AtOrZero(SortAsc(daysToOrder), pct)

ScriptConversionRate(withOrder, total) == Frac(withOrder, total)

ScriptCalculateStatistics(data) ==
  LET daysToOrder == DaysOf(data)
  IN IF Len(daysToOrder) = 0
     THEN [totalSubscribers |-> Len(data),
           subscribersWithOrder |-> 0,
           conversionRate |-> Zero,
           meanDaysToFirstOrder |-> Zero,
           medianDaysToFirstOrder |-> 0,
           variance |-> Zero,
           percentiles |-> [p25 |-> 0, p75 |-> 0, p90 |-> 0, p95 |-> 0]]
     ELSE [totalSubscribers |-> Len(data),
           subscribersWithOrder |-> Len(daysToOrder),
           conversionRate |-> ScriptConversionRate(Len(daysToOrder), Len(data)),
           meanDaysToFirstOrder |-> Frac(Sum(daysToOrder), Len(daysToOrder)),
           medianDaysToFirstOrder |-> ScriptPercentile(daysToOrder, 50),
           variance |-> Variance(daysToOrder),
           percentiles |-> [p25 |-> ScriptPercentile(daysToOrder, 25),
                            p75 |-> ScriptPercentile(daysToOrder, 75),
                            p90 |-> ScriptPercentile(daysToOrder, 90),
                            p95 |-> ScriptPercentile(daysToOrder, 95)]]

\* AnalysisService.getWeekNumber(date), as written: the Thursday of the
\* date's week, then Math.ceil(daysSinceYearStart + 1 / 7).
GetWeekNumber(date) ==
  LET d0 == date.day
      dayNum == IF DayOfWeek(d0) = 0 THEN 7 ELSE DayOfWeek(d0)
      d == d0 + 4 - dayNum
      yearStart == DaysFromCivil(CivilFromDays(d).y, 1, 1)
  IN (d - yearStart) + 1

\* ------------------------------------------------------------ grouping
\* A Map whose arrays are replaced, not extended (not the source's push).
AddToCohortReplacing(cohorts, key, profile) ==
  MapSet(cohorts, key, <<profile>>)

\* cohorts.get(key).push(profile) on the Map of cohorts.
AddToCohort(cohorts, key, profile) ==
  IF MapHas(cohorts, key)
  THEN MapSet(cohorts, key, Append(MapGet(cohorts, key)[1], profile))
  ELSE MapSet(cohorts, key, <<profile>>)

\* --------------------------------------------- AnalysisService: cohorts
\* `${year}-W${week}` of a profile's firstSubscriptionDate.
ServiceCohortKey(date) ==
  [year |-> CivilFromDays(date.day).y, week |-> GetWeekNumber(date)]

RECURSIVE ServiceGroup(_, _)
ServiceGroup(cohorts, profiles) ==
  IF profiles = <<>> THEN cohorts
  ELSE ServiceGroup(
         AddToCohort(cohorts,
                     ServiceCohortKey(Head(profiles).firstSubscriptionDate),
                     Head(profiles)),
         Tail(profiles))

ServiceCohortMedian(daysToOrder) ==
  IF Len(daysToOrder) > 0 THEN daysToOrder[(Len(daysToOrder) \div 2) + 1] ELSE 0

\* The CohortDataPoint pushed for one cohort.
ServiceCohortPoint(cohortProfiles) ==
  LET daysToOrder == SortAsc(DaysOf(cohortProfiles))
      firstProfile == cohortProfiles[1]
      date == ToISODate(firstProfile.firstSubscriptionDate)
  IN [signupDate |-> date,
      cohortLabel |-> [prefix |-> "Week of", date |-> date],
      subscribers |-> Len(cohortProfiles),
      ordersPlaced |-> Len(daysToOrder),
      conversionRate |->
        IF Len(cohortProfiles) > 0
        THEN Frac(Len(daysToOrder) * 100, Len(cohortProfiles)) ELSE Zero,
      avgDaysToOrder |->
        IF Len(daysToOrder) > 0 THEN Frac(Sum(daysToOrder), Len(daysToOrder)) ELSE Zero,
      medianDaysToOrder |-> ServiceCohortMedian(daysToOrder)]

\* a.signupDate.localeCompare(b.signupDate) < 0
ServiceCohortBefore(a, b) == ISODateBefore(a.signupDate, b.signupDate)

\* cohortData.sort(...) of the service: Array.prototype.sort is stable.
RECURSIVE ServiceInsertCohort(_, _)
ServiceInsertCohort(sorted, c) ==
  IF sorted = <<>> THEN <<c>>
  ELSE IF ServiceCohortBefore(c, Head(sorted)) THEN <<c>> \o sorted
  ELSE <<Head(sorted)>> \o ServiceInsertCohort(Tail(sorted), c)

RECURSIVE ServiceSortCohorts(_)
ServiceSortCohorts(a) ==
  IF a = <<>> THEN <<>>
  ELSE ServiceInsertCohort(ServiceSortCohorts(SubSeq(a, 1, Len(a) - 1)), a[Len(a)])

\* generateCohortData(profiles) of the service, for profiles whose dates
\* are all valid (with an Invalid Date toISOString throws a RangeError).
GenerateCohortData(profiles) ==
  LET cohorts == ServiceGroup(<<>>, profiles)
      cohortData == [i \in 1..Len(cohorts) |-> ServiceCohortPoint(cohorts[i].value)]
  IN ServiceSortCohorts(cohortData)

\* Whether generateCohortData(profiles) throws.
GenerateCohortDataThrows(profiles) ==
  \E i \in 1..Len(profiles) : profiles[i].firstSubscriptionDate.nan

\* --------------------------------------------------- script: cohorts
\* The Monday computed for cohortPeriod 'week': setDate(getDate() -
\* dayOfWeek + (dayOfWeek === 0 ? -6 : 1)) on a copy of signupDate.
MondayOf(signupDate) ==
  LET dayOfWeek == DayOfWeek(signupDate.day)
  IN MkDate(signupDate.day - dayOfWeek + (IF dayOfWeek = 0 THEN -6 ELSE 1),
            signupDate.tod)

\* cohortKey of one profile, for a valid signupDate.
ScriptCohortKey(signupDate, cohortPeriod) ==
  IF cohortPeriod = "week"
  THEN [prefix |-> "Week of", date |-> ToISODate(MondayOf(signupDate))]
  ELSE IF cohortPeriod = "month"
  THEN [prefix |-> "Month of",
        date |-> <<CivilFromDays(signupDate.day).y, CivilFromDays(signupDate.day).m>>]
  ELSE [prefix |-> "", date |-> ToISODate(signupDate)]

RECURSIVE ScriptGroup(_, _, _)
ScriptGroup(cohorts, data, cohortPeriod) ==
  IF data = <<>> THEN cohorts
  ELSE ScriptGroup(
         AddToCohort(cohorts,
                     ScriptCohortKey(Head(data).subscribedDate, cohortPeriod),
                     Head(data)),
         Tail(data), cohortPeriod)

\* The chain with strict comparisons, which moves each boundary value into
\* the next range (not the source's chain).
DayRangeOfExclusive(days) ==
  IF days < 7 THEN "0-7 days"
  ELSE IF days < 14 THEN "8-14 days"
  ELSE IF days < 30 THEN "15-30 days"
  ELSE IF days < 60 THEN "31-60 days"
  ELSE IF days < 90 THEN "61-90 days"
  ELSE "91+ days"

\* The if / else-if chain on a latency in whole days.
DayRangeOf(days) ==
  IF days <= 7 THEN "0-7 days"
  ELSE IF days <= 14 THEN "8-14 days"
  ELSE IF days <= 30 THEN "15-30 days"
  ELSE IF days <= 60 THEN "31-60 days"
  ELSE IF days <= 90 THEN "61-90 days"
  ELSE "91+ days"

\* How many of the days fall in the named range.
RECURSIVE CountIn(_, _)
CountIn(days, range) ==
  IF days = <<>> THEN 0
  ELSE (IF DayRangeOf(Head(days)) = range THEN 1 ELSE 0) + CountIn(Tail(days), range)

\* dayRanges of one cohort in generateCohortData.
DayRanges(daysToOrder) ==
  [d0to7 |-> CountIn(daysToOrder, "0-7 days"),
   d8to14 |-> CountIn(daysToOrder, "8-14 days"),
   d15to30 |-> CountIn(daysToOrder, "15-30 days"),
   d31to60 |-> CountIn(daysToOrder, "31-60 days"),
   d61to90 |-> CountIn(daysToOrder, "61-90 days"),
   d91plus |-> CountIn(daysToOrder, "91+ days")]

\* The median of one cohort in the script's generateCohortData.
ScriptCohortMedian(daysToOrder) ==
  LET sorted == SortAsc(daysToOrder)
      mid == Len(sorted) \div 2
  IN IF Len(sorted) > 0
     THEN IF Len(sorted) % 2 = 0
          THEN Frac(sorted[mid] + sorted[mid + 1], 2)
          ELSE Frac(sorted[mid + 1], 1)
     ELSE Zero

\* The CohortDataPoint pushed for one cohort.
ScriptCohortPoint(profiles, cohortKey) ==
  LET daysToOrder == DaysOf(profiles)
  IN [signupDate |-> ToISODate(profiles[1].subscribedDate),
      cohortLabel |-> cohortKey,
      subscribers |-> Len(profiles),
      ordersPlaced |-> Len(daysToOrder),
      conversionRate |->
        IF Len(profiles) > 0 THEN Frac(Len(daysToOrder), Len(profiles)) ELSE Zero,
      avgDaysToOrder |->
        IF Len(daysToOrder) > 0 THEN Frac(Sum(daysToOrder), Len(daysToOrder)) ELSE Zero,
      medianDaysToOrder |-> ScriptCohortMedian(daysToOrder),
      dayRanges |-> DayRanges(daysToOrder)]

\* new Date(a.signupDate).getTime() - new Date(b.signupDate).getTime() < 0
ScriptCohortBefore(a, b) == ParseISODate(a.signupDate) < ParseISODate(b.signupDate)

RECURSIVE ScriptInsertCohort(_, _)
ScriptInsertCohort(sorted, c) ==
  IF sorted = <<>> THEN <<c>>
  ELSE IF ScriptCohortBefore(c, Head(sorted)) THEN <<c>> \o sorted
  ELSE <<Head(sorted)>> \o ScriptInsertCohort(Tail(sorted), c)

RECURSIVE ScriptSortCohorts(_)
ScriptSortCohorts(a) ==
  IF a = <<>> THEN <<>>
  ELSE ScriptInsertCohort(ScriptSortCohorts(SubSeq(a, 1, Len(a) - 1)), a[Len(a)])

\* generateCohortData(data, cohortPeriod) of the script, for data whose
\* dates are all valid (with an Invalid Date toISOString throws).
ScriptGenerateCohortData(data, cohortPeriod) ==
  LET cohorts == ScriptGroup(<<>>, data, cohortPeriod)
      cohortData ==
        [i \in 1..Len(cohorts) |-> ScriptCohortPoint(cohorts[i].value, cohorts[i].key)]
  IN ScriptSortCohorts(cohortData)

ScriptGenerateCohortDataThrows(data) ==
  \E i \in 1..Len(data) : data[i].subscribedDate.nan

\* How many records have a null daysToFirstOrder.
RECURSIVE CountNever(_)
CountNever(data) ==
  IF data = <<>> THEN 0
  ELSE (IF Head(data).daysToFirstOrder = NULL THEN 1 ELSE 0) + CountNever(Tail(data))

\* Every non-null daysToFirstOrder, in array order.
RECURSIVE AllDaysOf(_)
AllDaysOf(data) ==
  IF data = <<>> THEN <<>>
  ELSE LET d == Head(data).daysToFirstOrder
       IN IF d # NULL THEN <<d[1]>> \o AllDaysOf(Tail(data)) ELSE AllDaysOf(Tail(data))

\* calculateDistribution(data)
CalculateDistribution(data) ==
  [d0to7 |-> CountIn(AllDaysOf(data), "0-7 days"),
   d8to14 |-> CountIn(AllDaysOf(data), "8-14 days"),
   d15to30 |-> CountIn(AllDaysOf(data), "15-30 days"),
   d31to60 |-> CountIn(AllDaysOf(data), "31-60 days"),
   d61to90 |-> CountIn(AllDaysOf(data), "61-90 days"),
   d91plus |-> CountIn(AllDaysOf(data), "91+ days"),
   never |-> CountNever(data)]

\* =================================================================== state
VARIABLES
  pc,                     \* where the run is
  cohortPeriod,           \* the granularity requested of the run or call
  subscriptionEvents,     \* input: the raw start events
  orderEvents,            \* input: the raw conversion events
  subscriptions,          \* runAnalysis: Map profileID -> first subscription
  orders,                 \* runAnalysis: Map profileID -> first order
  profiles,               \* runAnalysis: ProfileData[]
  statistics,             \* runAnalysis: Statistics
  cohortData,             \* runAnalysis: CohortDataPoint[]
  subscriptionsByProfile, \* processEvents: Map profileID -> first subscription
  ordersByProfile,        \* processEvents: Map profileID -> first order
  profileData,            \* script: ProfileSubscriptionData[]
  scriptStatistics,       \* script: AnalysisResult.statistics
  scriptCohortData,       \* script: AnalysisResult.cohortData
  distribution,           \* script: AnalysisResult.distribution
  pages,                  \* Klaviyo: the chain of pages of one event query
  allEvents,              \* getAllEventsWithPagination: allEvents
  pageCursor,             \* getAllEventsWithPagination: pageCursor
  attempt,                \* KlaviyoService.request: attempt
  retries,                \* retry: retries
  responses,              \* the status of every HTTP request issued so far
  lastError,              \* the error getEvents failed with
  clock,                  \* Date.now()
  memoryStore,            \* RateLimiter.memoryStore, the record of the identifier
  checks,                 \* the check() calls made so far, in the order they began
  failedLoginAttempts,    \* users.failed_login_attempts of the account
  lockedUntil,            \* users.locked_until of the account
  logins,                 \* the authorize() calls made so far, in the order they began
  cacheEntries,           \* Redis: the string values stored by the cache, with their ttl
  upstream,               \* what fetchFn resolves to at the moment
  gets,                   \* the calls of the cache service, each at its await or returned
  metadata,               \* the metadata object a caller hands to auditLog
  sanitizedMetadata,      \* auditLog: sanitizedMetadata
  analyses,               \* the rows of the analyses table
  runs                    \* by analysis id: the state of the background run started for it

inputVars == <<subscriptionEvents, orderEvents>>
serviceVars == <<subscriptions, orders, profiles, statistics, cohortData>>
scriptMatchVars == <<subscriptionsByProfile, ordersByProfile, profileData>>
scriptResultVars == <<scriptStatistics, scriptCohortData, distribution>>
engineVars == <<cohortPeriod, inputVars, serviceVars, scriptMatchVars, scriptResultVars>>
pageVars == <<pages, allEvents, pageCursor>>
httpVars == <<attempt, retries, responses, lastError>>
limiterVars == <<clock, memoryStore, checks>>
authVars == <<failedLoginAttempts, lockedUntil, logins>>
cacheVars == <<cacheEntries, upstream, gets>>
auditVars == <<metadata, sanitizedMetadata>>
recordVars == <<analyses, runs>>
platformVars == <<pageVars, httpVars, limiterVars, authVars, cacheVars, auditVars, recordVars>>
vars == <<pc, engineVars, platformVars>>

\* The unix timestamp (seconds) of 2025-01-06T06:00:00Z.
BaseSeconds == BaseDay * SecondsPerDay + 6 * 3600

Event(id, datetime, timestamp) ==
  [profile_id |-> id, datetime |-> datetime, timestamp |-> timestamp]

\* The raw events a run may be given. profile_id "" and datetime "" stand
\* for a missing (or empty) field, timestamp 0 for a missing timestamp.
Events ==
  {Event("", "2025-01-06T00:00:00Z", 0)}
  \cup {Event("A", dt, 0) : dt \in {"", "not-a-date"} \cup DOMAIN IsoTimes}
  \cup {Event("A", "", BaseSeconds)}
  \cup {Event("B", dt, 0) :
          dt \in {"", "not-a-date", "2025-01-06T00:00:00Z", "2025-01-07T13:00:00Z"}}

NoResults ==
  /\ subscriptions = <<>>
  /\ orders = <<>>
  /\ profiles = <<>>
  /\ statistics = NULL
  /\ cohortData = NULL
  /\ subscriptionsByProfile = <<>>
  /\ ordersByProfile = <<>>
  /\ profileData = <<>>
  /\ scriptStatistics = NULL
  /\ scriptCohortData = NULL
  /\ distribution = NULL

\* analysisSchema: cohortPeriod is z.enum(['day', 'week', 'month']).optional()
CohortPeriods == {"day", "week", "month"}

\* What a request body may carry as cohortPeriod: nothing, a value of the
\* enum, or some other string.
RequestedPeriods == {NULL} \cup {Some(p) : p \in CohortPeriods \cup {"year"}}

\* A schema that declares cohortPeriod as z.string().optional()
AnalysisSchemaAcceptsAnyString(requested) == TRUE

\* Whether analysisSchema.parse accepts the value (else it throws ZodError).
AnalysisSchemaAccepts(requested) ==
  IF requested = NULL THEN TRUE ELSE requested[1] \in CohortPeriods

\* validatedData.cohortPeriod || 'week': the cohortPeriod argument that
\* runAnalysisBackground passes on to analysisService.runAnalysis.
CohortPeriodArgument(validated) ==
  IF validated = NULL THEN "week" ELSE validated[1]

\* The keys the cache is asked for.
CacheKeys == {"klaviyo:metrics:u1", "klaviyo:metrics:u2"}

\* A JSON value: a string, an object (children are its entries in key
\* order of insertion) or an array (children are its items under their
\* indexes).
JsonString(text) == [type |-> "string", text |-> text, children |-> <<>>]
JsonObject(entries) == [type |-> "object", text |-> "", children |-> entries]
JsonArray(entries) == [type |-> "array", text |-> "", children |-> entries]

\* Nothing has been fetched yet.
PagesIdle ==
  /\ pages = <<>>
  /\ allEvents = <<>>
  /\ pageCursor = NULL

\* The state of the web application around the engine before any request.
\* No page fetch is under way.
HttpIdle ==
  /\ attempt = 0
  /\ retries = 0
  /\ responses = <<>>
  /\ lastError = NULL

\* A new RateLimiter.
LimiterIdle ==
  /\ clock = 0
  /\ memoryStore = NULL
  /\ checks = <<>>

\* An account that nobody has tried to log in to.
AuthIdle ==
  /\ failedLoginAttempts = 0
  /\ lockedUntil = NULL
  /\ logins = <<>>

\* An empty cache in front of a source at its first version.
CacheIdle ==
  /\ cacheEntries = [key \in CacheKeys |-> NULL]
  /\ upstream = 1
  /\ gets = <<>>

\* No audit event has been logged.
AuditIdle ==
  /\ metadata = JsonString("x")
  /\ sanitizedMetadata = NULL

\* No analysis has been created.
AnalysesIdle ==
  /\ analyses = <<>>
  /\ runs = <<>>

PlatformIdle ==
  /\ PagesIdle
  /\ HttpIdle
  /\ LimiterIdle
  /\ AuthIdle
  /\ CacheIdle
  /\ AuditIdle
  /\ AnalysesIdle

\* The engine before any run.
EngineIdle ==
  /\ cohortPeriod = NULL
  /\ subscriptionEvents = <<>>
  /\ orderEvents = <<>>
  /\ NoResults

Init ==
  /\ pc = "input"
  /\ EngineIdle
  /\ PlatformIdle

\* The event source hands over one more start event.
AddSubscriptionEvent ==
  /\ pc = "input"
  /\ Len(subscriptionEvents) + Len(orderEvents) < MaxEvents
  /\ \E e \in Events : subscriptionEvents' = Append(subscriptionEvents, e)
  /\ UNCHANGED <<platformVars, cohortPeriod, pc, orderEvents, serviceVars, scriptMatchVars, scriptResultVars>>

\* The event source hands over one more conversion event.
AddOrderEvent ==
  /\ pc = "input"
  /\ Len(subscriptionEvents) + Len(orderEvents) < MaxEvents
  /\ \E e \in Events : orderEvents' = Append(orderEvents, e)
  /\ UNCHANGED <<platformVars, cohortPeriod, pc, subscriptionEvents, serviceVars, scriptMatchVars, scriptResultVars>>

\* POST /api/analysis with a cohortPeriod that analysisSchema rejects: parse
\* throws ZodError before anything is fetched, the response is 400 'Invalid
\* input' and no analysis runs.
PostInvalid ==
  /\ pc = "input"
  /\ subscriptionEvents = <<>>
  /\ orderEvents = <<>>
  /\ \E requested \in RequestedPeriods :
       /\ ~AnalysisSchemaAccepts(requested)
       /\ cohortPeriod' = requested
  /\ pc' = "invalid"
  /\ UNCHANGED <<platformVars, inputVars, serviceVars, scriptMatchVars, scriptResultVars>>

\* runAnalysisBackground's call analysisService.runAnalysis(startEvents,
\* conversionEvents, cohortPeriod) for a request that analysisSchema
\* accepted. runAnalysis(subscriptionEvents, orderEvents) has two
\* parameters, so the third argument is dropped. When generateCohortData
\* throws, the promise rejects and nothing is returned.
RunAnalysis ==
  /\ pc = "input"
  /\ \E requested \in RequestedPeriods :
       /\ AnalysisSchemaAccepts(requested)
       /\ cohortPeriod' = requested
  /\ subscriptions' = ProcessSubscriptionEvents(subscriptionEvents)
  /\ orders' = ProcessOrderEvents(orderEvents)
  /\ profiles' = MatchSubscriptionsToOrders(subscriptions', orders')
  /\ statistics' = Some(CalculateStatistics(profiles'))
  /\ IF GenerateCohortDataThrows(profiles')
     THEN /\ cohortData' = NULL
          /\ pc' = "threw"
     ELSE /\ cohortData' = Some(GenerateCohortData(profiles'))
          /\ pc' = "returned"
  /\ UNCHANGED <<platformVars, inputVars, scriptMatchVars, scriptResultVars>>

\* processEvents(subscriptionEvents, orderEvents) of the script, called
\* with the events of the source.
ProcessEventsCall ==
  /\ pc = "input"
  /\ subscriptionsByProfile' = ByProfile(subscriptionEvents)
  /\ ordersByProfile' = ByProfile(orderEvents)
  /\ profileData' = ProcessEvents(subscriptionEvents, orderEvents)
  /\ pc' = "processed"
  /\ UNCHANGED <<platformVars, cohortPeriod, inputVars, serviceVars, scriptResultVars>>

\* calculateStatistics, generateCohortData (default period) and
\* calculateDistribution of the script, called one after the other with
\* the records that processEvents has returned.
ScriptAnalyzeCalls ==
  /\ pc = "processed"
  /\ scriptStatistics' = Some(ScriptCalculateStatistics(profileData))
  /\ IF ScriptGenerateCohortDataThrows(profileData)
     THEN /\ scriptCohortData' = NULL
          /\ distribution' = NULL
          /\ pc' = "analysisThrew"
     ELSE /\ scriptCohortData' = Some(ScriptGenerateCohortData(profileData, "week"))
          /\ distribution' = Some(CalculateDistribution(profileData))
          /\ pc' = "analyzed"
  /\ UNCHANGED <<platformVars, cohortPeriod, inputVars, serviceVars, scriptMatchVars>>

\* The placeholder of analyzeSubscriptionToOrderTime: const profileData = []
PlaceholderProfileData == <<>>

\* analyzeSubscriptionToOrderTime(startDate, endDate), the exported run of
\* the script: its fetches and its call of processEvents are comments, so
\* it reads no event and runs steps 5 and 6 on the placeholder.
AnalyzeSubscriptionToOrderTime ==
  /\ pc = "input"
  /\ scriptStatistics' = Some(ScriptCalculateStatistics(PlaceholderProfileData))
  /\ scriptCohortData' = Some(ScriptGenerateCohortData(PlaceholderProfileData, "week"))
  /\ distribution' = Some(CalculateDistribution(PlaceholderProfileData))
  /\ pc' = "placeholder"
  /\ UNCHANGED <<platformVars, cohortPeriod, inputVars, serviceVars, scriptMatchVars>>

Next ==
  \/ PostInvalid
  \/ AddSubscriptionEvent
  \/ AddOrderEvent
  \/ RunAnalysis
  \/ ProcessEventsCall
  \/ ScriptAnalyzeCalls
  \/ AnalyzeSubscriptionToOrderTime

Spec == Init /\ [][Next]_vars

\* ============================================ the functions on records
\* calculateStatistics, generateCohortData and calculateDistribution are
\* functions of a record list; the second specification calls each of them
\* on record lists of the kind the matchers produce: a record has either no
\* order and no latency, or an order `days` whole days and one hour after
\* the subscription (which both matchers turn into the latency `days`).

\* The latencies (whole days) of the records built one at a time.
Latencies == {0, 1, 3}

\* The subscription dates of those records: two Mondays a week apart.
SignupDays == {BaseDay, BaseDay + 7}

\* The lengths of the descending ramps n, n-1, ..., 1 of latencies.
RampLengths == {10, 20}

\* Latencies on both sides of every boundary of the day ranges.
BoundaryLatencies == <<120, 91, 90, 61, 60, 31, 30, 15, 14, 8, 7, 0>>

OrderAfter(subscribedDate, days) ==
  IF days = NULL THEN NULL
  ELSE Some(MkDate(subscribedDate.day + days[1], subscribedDate.tod + MsPerHour))

\* The same subscriber as a ProfileData of the service ...
ServiceRecord(id, subscribedDate, days) ==
  [profileID |-> id,
   firstSubscriptionDate |-> subscribedDate,
   firstOrderDate |-> OrderAfter(subscribedDate, days),
   daysToFirstOrder |-> days]

\* ... and as a ProfileSubscriptionData of the script.
ScriptRecord(id, subscribedDate, days) ==
  [profileID |-> id,
   subscribedDate |-> subscribedDate,
   firstOrderDate |-> OrderAfter(subscribedDate, days),
   daysToFirstOrder |-> days]

InitRecords ==
  /\ pc = "records"
  /\ EngineIdle
  /\ PlatformIdle

\* One more subscriber in the record list.
AddRecord ==
  /\ pc = "records"
  /\ Len(profiles) < MaxProfiles
  /\ \E day \in SignupDays, days \in {NULL} \cup {Some(d) : d \in Latencies} :
       /\ profiles' = Append(profiles, ServiceRecord(Len(profiles) + 1, MkDate(day, 0), days))
       /\ profileData' = Append(profileData, ScriptRecord(Len(profiles) + 1, MkDate(day, 0), days))
  /\ UNCHANGED <<platformVars, cohortPeriod, pc, inputVars, subscriptions, orders, statistics, cohortData,
                 subscriptionsByProfile, ordersByProfile, scriptResultVars>>

\* n subscribers of one day whose latencies are n, n-1, ..., 1.
LoadRamp ==
  /\ pc = "records"
  /\ profiles = <<>>
  /\ \E n \in RampLengths :
       /\ profiles' = [i \in 1..n |-> ServiceRecord(i, MkDate(BaseDay, 0), Some(n + 1 - i))]
       /\ profileData' = [i \in 1..n |-> ScriptRecord(i, MkDate(BaseDay, 0), Some(n + 1 - i))]
  /\ pc' = "ramp"
  /\ UNCHANGED <<platformVars, cohortPeriod, inputVars, subscriptions, orders, statistics, cohortData,
                 subscriptionsByProfile, ordersByProfile, scriptResultVars>>

\* Subscribers of one day with the boundary latencies, and one more who
\* never ordered.
LoadBoundaries ==
  /\ pc = "records"
  /\ profiles = <<>>
  /\ LET n == Len(BoundaryLatencies)
         days(i) == IF i <= n THEN Some(BoundaryLatencies[i]) ELSE NULL
     IN /\ profiles' = [i \in 1..(n + 1) |-> ServiceRecord(i, MkDate(BaseDay, 0), days(i))]
        /\ profileData' = [i \in 1..(n + 1) |-> ScriptRecord(i, MkDate(BaseDay, 0), days(i))]
  /\ pc' = "ramp"
  /\ UNCHANGED <<platformVars, cohortPeriod, inputVars, subscriptions, orders, statistics, cohortData,
                 subscriptionsByProfile, ordersByProfile, scriptResultVars>>

\* AnalysisService.calculateStatistics(profiles)
CalculateStatisticsCall ==
  /\ pc \in {"records", "ramp"}
  /\ statistics' = Some(CalculateStatistics(profiles))
  /\ pc' = "called"
  /\ UNCHANGED <<platformVars, cohortPeriod, inputVars, subscriptions, orders, profiles, cohortData,
                 scriptMatchVars, scriptResultVars>>

\* AnalysisService.generateCohortData(profiles)
GenerateCohortDataCall ==
  /\ pc \in {"records", "ramp"}
  /\ cohortData' = Some(GenerateCohortData(profiles))
  /\ pc' = "called"
  /\ UNCHANGED <<platformVars, cohortPeriod, inputVars, subscriptions, orders, profiles, statistics,
                 scriptMatchVars, scriptResultVars>>

\* calculateStatistics(data) of the script
ScriptCalculateStatisticsCall ==
  /\ pc \in {"records", "ramp"}
  /\ scriptStatistics' = Some(ScriptCalculateStatistics(profileData))
  /\ pc' = "called"
  /\ UNCHANGED <<platformVars, cohortPeriod, inputVars, serviceVars, scriptMatchVars, scriptCohortData, distribution>>

\* generateCohortData(data, cohortPeriod) of the script
ScriptGenerateCohortDataCall ==
  /\ pc \in {"records", "ramp"}
  /\ \E period \in CohortPeriods :
       /\ cohortPeriod' = Some(period)
       /\ scriptCohortData' = Some(ScriptGenerateCohortData(profileData, period))
  /\ pc' = "called"
  /\ UNCHANGED <<platformVars, inputVars, serviceVars, scriptMatchVars, scriptStatistics, distribution>>

\* calculateDistribution(data) of the script
CalculateDistributionCall ==
  /\ pc \in {"records", "ramp"}
  /\ distribution' = Some(CalculateDistribution(profileData))
  /\ pc' = "called"
  /\ UNCHANGED <<platformVars, cohortPeriod, inputVars, serviceVars, scriptMatchVars, scriptStatistics, scriptCohortData>>

NextRecords ==
  \/ AddRecord
  \/ LoadRamp
  \/ LoadBoundaries
  \/ CalculateStatisticsCall
  \/ GenerateCohortDataCall
  \/ ScriptCalculateStatisticsCall
  \/ ScriptGenerateCohortDataCall
  \/ CalculateDistributionCall

SpecRecords == InitRecords /\ [][NextRecords]_vars

\* ------------------------------------------- cohorts of dated records
\* generateCohortData groups by the subscription date; the third
\* specification calls both implementations on records whose dates lie on
\* both sides of week, month and year boundaries.

\* How many records the dated lists hold at most.
MaxCohortProfiles == 3

\* Thu 2 Jan 2025, Mon 22 Dec 2025, Mon 29 Dec 2025, Tue 30 Dec 2025 and
\* Thu 1 Jan 2026 (the last three are in one Monday-to-Sunday week).
CohortDays ==
  {DaysFromCivil(2025, 1, 2), DaysFromCivil(2025, 12, 22), DaysFromCivil(2025, 12, 29),
   DaysFromCivil(2025, 12, 30), DaysFromCivil(2026, 1, 1)}

\* One more subscriber, who either never ordered or ordered two days later.
AddCohortRecord ==
  /\ pc = "records"
  /\ Len(profiles) < MaxCohortProfiles
  /\ \E day \in CohortDays, days \in {NULL, Some(2)} :
       /\ profiles' = Append(profiles, ServiceRecord(Len(profiles) + 1, MkDate(day, 0), days))
       /\ profileData' = Append(profileData, ScriptRecord(Len(profiles) + 1, MkDate(day, 0), days))
  /\ UNCHANGED <<platformVars, cohortPeriod, pc, inputVars, subscriptions, orders, statistics, cohortData,
                 subscriptionsByProfile, ordersByProfile, scriptResultVars>>

NextCohorts ==
  \/ AddCohortRecord
  \/ GenerateCohortDataCall
  \/ ScriptGenerateCohortDataCall

SpecCohorts == InitRecords /\ [][NextCohorts]_vars

\* ================================================================ claims
ServiceRan == pc \in {"returned", "threw"}
ScriptMatched == pc \in {"processed", "analyzed", "analysisThrew"}

\* Every date of the map is a valid date.
AllValid(m) == \A i \in 1..Len(m) : ~m[i].value.nan

\* The matcher ran on two maps of valid dates.
ServiceMatchedValid == ServiceRan /\ AllValid(subscriptions) /\ AllValid(orders)
ScriptMatchedValid ==
  ScriptMatched /\ AllValid(subscriptionsByProfile) /\ AllValid(ordersByProfile)

\* The records of one entity.
ServiceRecordsOf(id) == {i \in 1..Len(profiles) : profiles[i].profileID = id}
ScriptRecordsOf(id) == {i \in 1..Len(profileData) : profileData[i].profileID = id}

\* conversionTime exists and conversionTime >= startTime
ConvertedAtOrAfter(start, conversion) ==
  conversion # NULL /\ DateGE(conversion[1], start)

\* conversionTime exists and conversionTime = startTime
ConvertedAtStart(start, conversion) ==
  /\ conversion # NULL
  /\ ~start.nan
  /\ conversion[1] = start

\* C1: for every start entity the matcher sets daysToConversion to a
\* non-null value if and only if a conversion timestamp exists and
\* conversionTime >= startTime; a conversion at exactly the start time
\* yields daysToConversion = 0.
C1_DaysIffConversionNotBeforeStart ==
  /\ ServiceMatchedValid =>
       \A i \in 1..Len(subscriptions) :
         LET id == subscriptions[i].key
             start == subscriptions[i].value
             conversion == MapGet(orders, id)
         IN /\ ConvertedAtOrAfter(start, conversion)
                 <=> \E r \in ServiceRecordsOf(id) : profiles[r].daysToFirstOrder # NULL
            /\ ConvertedAtStart(start, conversion)
                 => \E r \in ServiceRecordsOf(id) : profiles[r].daysToFirstOrder = Some(0)
  /\ ScriptMatchedValid =>
       \A i \in 1..Len(subscriptionsByProfile) :
         LET id == subscriptionsByProfile[i].key
             start == subscriptionsByProfile[i].value
             conversion == MapGet(ordersByProfile, id)
         IN /\ ConvertedAtOrAfter(start, conversion)
                 <=> \E r \in ScriptRecordsOf(id) : profileData[r].daysToFirstOrder # NULL
            /\ ConvertedAtStart(start, conversion)
                 => \E r \in ScriptRecordsOf(id) : profileData[r].daysToFirstOrder = Some(0)

\* C2: the matcher produces exactly one record per distinct entity of the
\* start stream: an entity of the conversion stream alone has no record,
\* and an entity whose conversion precedes its start still has its record.
C2_OneRecordPerStartEntity ==
  /\ ServiceMatchedValid =>
       /\ \A id \in MapKeys(subscriptions) : Cardinality(ServiceRecordsOf(id)) = 1
       /\ \A i \in 1..Len(profiles) : profiles[i].profileID \in MapKeys(subscriptions)
  /\ ScriptMatchedValid =>
       /\ \A id \in MapKeys(subscriptionsByProfile) : Cardinality(ScriptRecordsOf(id)) = 1
       /\ \A i \in 1..Len(profileData) :
            profileData[i].profileID \in MapKeys(subscriptionsByProfile)

\* The entities whose earliest conversion is earlier than their earliest start.
EarlyConverted(starts, conversions) ==
  {id \in MapKeys(starts) :
     /\ MapHas(conversions, id)
     /\ DateLT(MapGet(conversions, id)[1], MapGet(starts, id)[1])}

\* C3: an entity whose earliest conversion is earlier than its earliest
\* start is non-converted everywhere: its daysToConversion is null, it is
\* not among the converted entities, and it is counted in
\* distribution.never; no negative latency is ever recorded.
C3_EarlyConversionIsNeverConverted ==
  /\ pc = "returned" =>
       /\ \A id \in EarlyConverted(subscriptions, orders) :
            \E r \in ServiceRecordsOf(id) : profiles[r].daysToFirstOrder = NULL
       /\ statistics[1].subscribersWithOrder
            <= Len(profiles) - Cardinality(EarlyConverted(subscriptions, orders))
       /\ \A i \in 1..Len(profiles) :
            profiles[i].daysToFirstOrder # NULL => profiles[i].daysToFirstOrder[1] >= 0
  /\ pc = "analyzed" =>
       /\ \A id \in EarlyConverted(subscriptionsByProfile, ordersByProfile) :
            \E r \in ScriptRecordsOf(id) : profileData[r].daysToFirstOrder = NULL
       /\ scriptStatistics[1].subscribersWithOrder
            <= Cardinality(MapKeys(subscriptionsByProfile))
               - Cardinality(EarlyConverted(subscriptionsByProfile, ordersByProfile))
       /\ distribution[1].never
            >= Cardinality(EarlyConverted(subscriptionsByProfile, ordersByProfile))
       /\ \A i \in 1..Len(profileData) :
            profileData[i].daysToFirstOrder # NULL => profileData[i].daysToFirstOrder[1] >= 0

\* days is diffMs / MsPerDay rounded to the nearest whole day, half up.
IsNearestDay(days, diffMs) ==
  /\ 2 * days * MsPerDay - MsPerDay <= 2 * diffMs
  /\ 2 * diffMs < 2 * days * MsPerDay + MsPerDay

\* C4: for a converted entity daysToConversion is (conversionTime -
\* startTime) / 86400 s rounded to the nearest whole day, never the floor.
C4_DaysRoundedToNearest ==
  /\ ServiceRan =>
       \A i \in 1..Len(profiles) :
         profiles[i].daysToFirstOrder # NULL =>
           IsNearestDay(profiles[i].daysToFirstOrder[1],
                        DiffMs(profiles[i].firstOrderDate[1],
                               profiles[i].firstSubscriptionDate))
  /\ ScriptMatched =>
       \A i \in 1..Len(profileData) :
         profileData[i].daysToFirstOrder # NULL =>
           IsNearestDay(profileData[i].daysToFirstOrder[1],
                        DiffMs(profileData[i].firstOrderDate[1],
                               profileData[i].subscribedDate))

\* A well-formed event has an entity id and a timestamp that parses: for
\* the service its datetime, for the script its datetime or else its
\* unix timestamp.
ServiceWellFormed(e) == e.profile_id # "" /\ e.datetime \in DOMAIN IsoTimes
ScriptWellFormed(e) ==
  /\ e.profile_id # ""
  /\ \/ e.datetime \in DOMAIN IsoTimes
     \/ e.datetime = "" /\ e.timestamp # 0
ServiceTime(e) == IsoTimes[e.datetime]
ScriptTime(e) ==
  IF e.datetime # "" THEN IsoTimes[e.datetime] ELSE NewDateFromSeconds(e.timestamp)

\* m maps every entity with a well-formed event to the minimum timestamp
\* of the entity's well-formed events.
ServiceKeepsMinimum(m, events) ==
  \A j \in 1..Len(events) :
    ServiceWellFormed(events[j]) =>
      /\ MapHas(m, events[j].profile_id)
      /\ LET kept == MapGet(m, events[j].profile_id)[1]
         IN /\ ~kept.nan
            /\ ~DateLT(ServiceTime(events[j]), kept)
            /\ \E k \in 1..Len(events) :
                 /\ ServiceWellFormed(events[k])
                 /\ events[k].profile_id = events[j].profile_id
                 /\ ServiceTime(events[k]) = kept

ScriptKeepsMinimum(m, events) ==
  \A j \in 1..Len(events) :
    ScriptWellFormed(events[j]) =>
      /\ MapHas(m, events[j].profile_id)
      /\ LET kept == MapGet(m, events[j].profile_id)[1]
         IN /\ ~kept.nan
            /\ ~DateLT(ScriptTime(events[j]), kept)
            /\ \E k \in 1..Len(events) :
                 /\ ScriptWellFormed(events[k])
                 /\ events[k].profile_id = events[j].profile_id
                 /\ ScriptTime(events[k]) = kept

\* C5: the reducer returns, for every entity with at least one well-formed
\* event, the minimum timestamp among the entity's events, whatever the
\* order of the list and however many duplicates it holds.
C5_ReducerKeepsMinimum ==
  /\ ServiceRan =>
       /\ ServiceKeepsMinimum(subscriptions, subscriptionEvents)
       /\ ServiceKeepsMinimum(orders, orderEvents)
  /\ ScriptMatched =>
       /\ ScriptKeepsMinimum(subscriptionsByProfile, subscriptionEvents)
       /\ ScriptKeepsMinimum(ordersByProfile, orderEvents)

\* Every entry of m is an entity with a well-formed event, with a valid date.
ServiceOnlyWellFormed(m, events) ==
  \A i \in 1..Len(m) :
    /\ ~m[i].value.nan
    /\ \E j \in 1..Len(events) :
         ServiceWellFormed(events[j]) /\ events[j].profile_id = m[i].key

ScriptOnlyWellFormed(m, events) ==
  \A i \in 1..Len(m) :
    /\ ~m[i].value.nan
    /\ \E j \in 1..Len(events) :
         ScriptWellFormed(events[j]) /\ events[j].profile_id = m[i].key

\* C6: an event with a missing entity id, a missing timestamp or an
\* unparseable timestamp never raises an error and never contributes an
\* entry to the reducer's output map.
C6_MalformedEventsAreDropped ==
  /\ pc # "threw"
  /\ pc # "analysisThrew"
  /\ ServiceRan =>
       /\ ServiceOnlyWellFormed(subscriptions, subscriptionEvents)
       /\ ServiceOnlyWellFormed(orders, orderEvents)
  /\ ScriptMatched =>
       /\ ScriptOnlyWellFormed(subscriptionsByProfile, subscriptionEvents)
       /\ ScriptOnlyWellFormed(ordersByProfile, orderEvents)

\* ------------------------------------------- claims about the statistics
\* The records among those at the indices S that have a latency.
ConvertedIn(recs, S) == {i \in S : recs[i].daysToFirstOrder # NULL}

All(recs) == 1..Len(recs)

\* v is the element at 0-based index k of the ascending-sorted latencies of
\* the records at S: fewer than k + 1 latencies are below v and at least
\* k + 1 are at most v.
IsAtRank(recs, S, k, v) ==
  /\ \E i \in ConvertedIn(recs, S) : recs[i].daysToFirstOrder[1] = v
  /\ Cardinality({i \in ConvertedIn(recs, S) : recs[i].daysToFirstOrder[1] < v}) <= k
  /\ Cardinality({i \in ConvertedIn(recs, S) : recs[i].daysToFirstOrder[1] <= v}) > k

\* floor(n * pct / 100), clamped to n - 1
RankIndex(n, pct) ==
  IF (n * pct) \div 100 >= n THEN n - 1 ELSE (n * pct) \div 100

\* v is the nearest-rank percentile pct of the latencies of the records at
\* S, and 0 when there is none.
IsNearestRank(recs, S, pct, v) ==
  IF ConvertedIn(recs, S) = {}
  THEN v = 0
  ELSE IsAtRank(recs, S, RankIndex(Cardinality(ConvertedIn(recs, S)), pct), v)

\* rate is converted / total as a fraction within 0..1, and 0 for no entity.
IsConversionFraction(rate, converted, total) ==
  IF total = 0
  THEN rate.num = 0
  ELSE /\ rate.num * total = converted * rate.den
       /\ 0 <= rate.num
       /\ rate.num <= rate.den

\* C7: conversionRate is the fraction convertedEntities / totalEntities, so
\* 0 <= conversionRate <= 1 for every non-empty record set, and it is 0
\* when totalEntities is 0.
C7_ConversionRateIsFraction ==
  /\ statistics # NULL =>
       IsConversionFraction(statistics[1].conversionRate,
                            Cardinality(ConvertedIn(profiles, All(profiles))),
                            Len(profiles))
  /\ scriptStatistics # NULL =>
       IsConversionFraction(scriptStatistics[1].conversionRate,
                            Cardinality(ConvertedIn(profileData, All(profileData))),
                            Len(profileData))

\* The Monday on or before a day number.
WeekStart(day) == day - ((day + 3) % 7)

\* Two day numbers fall in the same period of a granularity.
SamePeriod(period, d1, d2) ==
  IF period = "week" THEN WeekStart(d1) = WeekStart(d2)
  ELSE IF period = "month"
  THEN /\ CivilFromDays(d1).y = CivilFromDays(d2).y
       /\ CivilFromDays(d1).m = CivilFromDays(d2).m
  ELSE d1 = d2

\* The granularity a cohort label of the script was made for.
PeriodOfLabel(cohortLabel) ==
  IF cohortLabel.prefix = "Week of" THEN "week"
  ELSE IF cohortLabel.prefix = "Month of" THEN "month"
  ELSE "day"

ServiceMembers(c) ==
  {i \in 1..Len(profiles) :
     SamePeriod("week", profiles[i].firstSubscriptionDate.day, ParseISODate(c.signupDate))}

ScriptMembers(c) ==
  {i \in 1..Len(profileData) :
     SamePeriod(PeriodOfLabel(c.cohortLabel), profileData[i].subscribedDate.day,
                ParseISODate(c.signupDate))}

\* C8: the median is the nearest-rank percentile at 0.5, overall and inside
\* every cohort: medianDays = D[floor(|D| * 0.5)] (the upper middle element
\* for even |D|, never the average of the two middle ones), 0 for empty D.
C8_MedianIsNearestRank ==
  /\ statistics # NULL =>
       IsNearestRank(profiles, All(profiles), 50, statistics[1].medianDaysToFirstOrder)
  /\ cohortData # NULL =>
       \A c \in 1..Len(cohortData[1]) :
         IsNearestRank(profiles, ServiceMembers(cohortData[1][c]), 50,
                       cohortData[1][c].medianDaysToOrder)
  /\ scriptStatistics # NULL =>
       IsNearestRank(profileData, All(profileData), 50,
                     scriptStatistics[1].medianDaysToFirstOrder)
  /\ scriptCohortData # NULL =>
       \A c \in 1..Len(scriptCohortData[1]) :
         \E v \in 0..20 :
           /\ scriptCohortData[1][c].medianDaysToOrder.num
                = v * scriptCohortData[1][c].medianDaysToOrder.den
           /\ IsNearestRank(profileData, ScriptMembers(scriptCohortData[1][c]), 50, v)

\* The latencies of the records are exactly 1, 2, ..., 10.
IsOneToTen(recs) ==
  /\ Len(recs) = 10
  /\ \A v \in 1..10 : \E i \in 1..10 : recs[i].daysToFirstOrder = Some(v)

PercentilesAreNearestRank(recs, percentiles) ==
  /\ IsNearestRank(recs, All(recs), 25, percentiles.p25)
  /\ IsNearestRank(recs, All(recs), 75, percentiles.p75)
  /\ IsNearestRank(recs, All(recs), 90, percentiles.p90)
  /\ IsNearestRank(recs, All(recs), 95, percentiles.p95)
  /\ IsOneToTen(recs) => percentiles.p25 = 3 /\ percentiles.p90 = 10

\* C9: for XX in {25, 75, 90, 95} the percentile pXX is the element of the
\* ascending-sorted latencies D at index floor(|D| * XX / 100), clamped to
\* |D| - 1, and 0 when D is empty; latencies 1..10 give p25 = 3, p90 = 10.
C9_PercentilesAreNearestRank ==
  /\ statistics # NULL => PercentilesAreNearestRank(profiles, statistics[1].percentiles)
  /\ scriptStatistics # NULL =>
       PercentilesAreNearestRank(profileData, scriptStatistics[1].percentiles)

\* The statistics of latencies 1..10 were computed by both implementations'
\* calculateStatistics: p25 = 3 and p90 = 10.
C9_Witness ==
  \/ /\ statistics # NULL
     /\ IsOneToTen(profiles)
     /\ statistics[1].percentiles.p25 = 3
     /\ statistics[1].percentiles.p90 = 10
  \/ /\ scriptStatistics # NULL
     /\ IsOneToTen(profileData)
     /\ scriptStatistics[1].percentiles.p25 = 3
     /\ scriptStatistics[1].percentiles.p90 = 10

Monotone(percentiles) ==
  /\ percentiles.p25 <= percentiles.p75
  /\ percentiles.p75 <= percentiles.p90
  /\ percentiles.p90 <= percentiles.p95

\* C10: for every non-empty set of latencies the reported percentiles are
\* monotone: p25 <= p75 <= p90 <= p95.
C10_PercentilesMonotone ==
  /\ statistics # NULL /\ ConvertedIn(profiles, All(profiles)) # {} =>
       Monotone(statistics[1].percentiles)
  /\ scriptStatistics # NULL /\ ConvertedIn(profileData, All(profileData)) # {} =>
       Monotone(scriptStatistics[1].percentiles)

\* Statistics were computed for latencies given out of order whose four
\* percentiles are all different.
C10_Witness ==
  \/ /\ statistics # NULL
     /\ Len(profiles) >= 2
     /\ profiles[1].daysToFirstOrder # NULL
     /\ profiles[2].daysToFirstOrder # NULL
     /\ profiles[1].daysToFirstOrder[1] > profiles[2].daysToFirstOrder[1]
     /\ statistics[1].percentiles.p25 < statistics[1].percentiles.p75
     /\ statistics[1].percentiles.p75 < statistics[1].percentiles.p90
     /\ statistics[1].percentiles.p90 < statistics[1].percentiles.p95
  \/ /\ scriptStatistics # NULL
     /\ Len(profileData) >= 2
     /\ profileData[1].daysToFirstOrder # NULL
     /\ profileData[2].daysToFirstOrder # NULL
     /\ profileData[1].daysToFirstOrder[1] > profileData[2].daysToFirstOrder[1]
     /\ scriptStatistics[1].percentiles.p25 < scriptStatistics[1].percentiles.p75
     /\ scriptStatistics[1].percentiles.p75 < scriptStatistics[1].percentiles.p90
     /\ scriptStatistics[1].percentiles.p90 < scriptStatistics[1].percentiles.p95

\* The sum of the seven buckets of a DayRangeDistribution.
BucketSum(d) ==
  d.d0to7 + d.d8to14 + d.d15to30 + d.d31to60 + d.d61to90 + d.d91plus + d.never

\* C11: in the result of one analysis run the overall distribution counts
\* every start entity exactly once: the sum of the seven buckets equals
\* statistics.totalEntities, the number of distinct entities of the start
\* stream.
C11_DistributionCountsEveryStartEntity ==
  /\ pc = "returned" /\ AllValid(subscriptions) /\ AllValid(orders) =>
       statistics[1].totalSubscribers = Cardinality(MapKeys(subscriptions))
  /\ pc = "analyzed" /\ AllValid(subscriptionsByProfile) /\ AllValid(ordersByProfile) =>
       /\ BucketSum(distribution[1]) = scriptStatistics[1].totalSubscribers
       /\ scriptStatistics[1].totalSubscribers
            = Cardinality(MapKeys(subscriptionsByProfile))

\* The latencies of the records at S that lie in lo..hi.
Within(recs, S, lo, hi) ==
  {i \in ConvertedIn(recs, S) :
     lo <= recs[i].daysToFirstOrder[1] /\ recs[i].daysToFirstOrder[1] <= hi}

\* The latencies of the records at S that are at least lo.
AtLeast(recs, S, lo) ==
  {i \in ConvertedIn(recs, S) : lo <= recs[i].daysToFirstOrder[1]}

\* The six latency buckets of r count the records at S by inclusive upper
\* bounds.
BucketsByUpperBound(r, recs, S) ==
  /\ r.d0to7 = Cardinality(Within(recs, S, 0, 7))
  /\ r.d8to14 = Cardinality(Within(recs, S, 8, 14))
  /\ r.d15to30 = Cardinality(Within(recs, S, 15, 30))
  /\ r.d31to60 = Cardinality(Within(recs, S, 31, 60))
  /\ r.d61to90 = Cardinality(Within(recs, S, 61, 90))
  /\ r.d91plus = Cardinality(AtLeast(recs, S, 91))

\* C12: a non-null latency d is classified by inclusive upper bounds
\* (d <= 7, 8..14, 15..30, 31..60, 61..90, d >= 91), a null latency
\* increments only never, and each record increments exactly one bucket;
\* the per-cohort dayRanges use the same bounds.
C12_BucketsByInclusiveUpperBound ==
  /\ distribution # NULL =>
       /\ BucketsByUpperBound(distribution[1], profileData, All(profileData))
       /\ distribution[1].never
            = Len(profileData) - Cardinality(ConvertedIn(profileData, All(profileData)))
       /\ BucketSum(distribution[1]) = Len(profileData)
  /\ scriptCohortData # NULL =>
       \A c \in 1..Len(scriptCohortData[1]) :
         BucketsByUpperBound(scriptCohortData[1][c].dayRanges, profileData,
                             ScriptMembers(scriptCohortData[1][c]))

\* calculateDistribution ran on records that hold every boundary value 7,
\* 8, 14, 15, 30, 31, 60, 61, 90 and 91 and a null latency: 0 and 7 are in
\* "0-7", 8 and 14 in "8-14", ..., 91 and 120 in "91+", the null in never.
C12_Witness ==
  /\ distribution # NULL
  /\ \A v \in {7, 8, 14, 15, 30, 31, 60, 61, 90, 91} :
       \E i \in 1..Len(profileData) : profileData[i].daysToFirstOrder = Some(v)
  /\ \E i \in 1..Len(profileData) : profileData[i].daysToFirstOrder = NULL
  /\ distribution[1].d0to7 = 2
  /\ distribution[1].d8to14 = 2
  /\ distribution[1].d15to30 = 2
  /\ distribution[1].d31to60 = 2
  /\ distribution[1].d61to90 = 2
  /\ distribution[1].d91plus = 2
  /\ distribution[1].never = 1

\* The sum of the subscribers of the cohorts.
RECURSIVE SumOfSubscribers(_)
SumOfSubscribers(cohorts) ==
  IF cohorts = <<>> THEN 0
  ELSE Head(cohorts).subscribers + SumOfSubscribers(Tail(cohorts))

\* The arrays of the Map of cohorts that hold the record.
CohortsHolding(cohorts, record) ==
  {k \in 1..Len(cohorts) :
     \E j \in 1..Len(cohorts[k].value) : cohorts[k].value[j] = record}

\* The cohorts of the list partition the records: every record is in
\* exactly one array of the Map, no cohort is empty, and the cohort sizes
\* add up to the overall total.
Partitions(cohortList, cohorts, recs, total) ==
  /\ \A i \in 1..Len(recs) : Cardinality(CohortsHolding(cohorts, recs[i])) = 1
  /\ Len(cohortList) = Len(cohorts)
  /\ \A c \in 1..Len(cohortList) : cohortList[c].subscribers > 0
  /\ SumOfSubscribers(cohortList) = total
  /\ total = Len(recs)

\* C13: for every granularity (day, week, month) the cohort buckets
\* partition the population: every record is counted in exactly one cohort,
\* no cohort has zero entities, and the cohort totals add up to the
\* totalEntities of the overall statistics.
C13_CohortsPartitionPopulation ==
  /\ cohortData # NULL =>
       Partitions(cohortData[1], ServiceGroup(<<>>, profiles), profiles,
                  CalculateStatistics(profiles).totalSubscribers)
  /\ scriptCohortData # NULL /\ cohortPeriod[1] \in CohortPeriods =>
       Partitions(scriptCohortData[1],
                  ScriptGroup(<<>>, profileData, cohortPeriod[1]), profileData,
                  ScriptCalculateStatistics(profileData).totalSubscribers)

\* Three records were grouped into two cohorts, one of them with two
\* members: by the service, or by the script for month granularity.
C13_Witness ==
  \/ /\ cohortData # NULL
     /\ Len(profiles) = 3
     /\ Len(cohortData[1]) = 2
     /\ \E c \in 1..2 : cohortData[1][c].subscribers = 2
  \/ /\ scriptCohortData # NULL
     /\ cohortPeriod = Some("month")
     /\ Len(profileData) = 3
     /\ Len(scriptCohortData[1]) = 2
     /\ \E c \in 1..2 : scriptCohortData[1][c].subscribers = 2

\* C14: with week granularity the cohort key of an entity is the Monday on
\* or before its start time, so two entities are in the same weekly cohort
\* if and only if their start times fall in the same Monday-to-Sunday
\* week, across year boundaries too.
C14_WeekCohortIsMondayWeek ==
  /\ cohortData # NULL =>
       /\ \A i, j \in 1..Len(profiles) :
            ServiceCohortKey(profiles[i].firstSubscriptionDate)
                = ServiceCohortKey(profiles[j].firstSubscriptionDate)
              <=> WeekStart(profiles[i].firstSubscriptionDate.day)
                    = WeekStart(profiles[j].firstSubscriptionDate.day)
       /\ \A c \in 1..Len(cohortData[1]) :
            cohortData[1][c].subscribers = Cardinality(ServiceMembers(cohortData[1][c]))
  /\ scriptCohortData # NULL /\ cohortPeriod = Some("week") =>
       /\ \A i \in 1..Len(profileData) :
            ScriptCohortKey(profileData[i].subscribedDate, "week").date
              = ToISODate(MkDate(WeekStart(profileData[i].subscribedDate.day), 0))
       /\ \A c \in 1..Len(scriptCohortData[1]) :
            /\ scriptCohortData[1][c].subscribers
                 = Cardinality(ScriptMembers(scriptCohortData[1][c]))
            /\ ParseISODate(scriptCohortData[1][c].cohortLabel.date)
                 = WeekStart(ParseISODate(scriptCohortData[1][c].signupDate))

\* The first day of the period of a granularity that holds a day number.
PeriodStart(period, day) ==
  IF period = "week" THEN WeekStart(day)
  ELSE IF period = "month"
  THEN DaysFromCivil(CivilFromDays(day).y, CivilFromDays(day).m, 1)
  ELSE day

\* C15: each cohort's periodStartDate is the first day of its period (the
\* date itself for day, the Monday for week, the first day of the month for
\* month) and so does not depend on which member was encountered first.
C15_PeriodStartIsFirstDayOfPeriod ==
  scriptCohortData # NULL /\ cohortPeriod[1] \in CohortPeriods =>
    \A c \in 1..Len(scriptCohortData[1]) :
      ParseISODate(scriptCohortData[1][c].signupDate)
        = PeriodStart(cohortPeriod[1], ParseISODate(scriptCohortData[1][c].signupDate))

\* The periods of the buckets of dates start in strictly ascending order.
AscendingPeriods(period, dates) ==
  \A i, j \in 1..Len(dates) :
    i < j => PeriodStart(period, ParseISODate(dates[i]))
               < PeriodStart(period, ParseISODate(dates[j]))

\* C16: the returned cohort list is in ascending chronological order of
\* period: for two buckets at positions i < j, bucket i's period starts
\* strictly before bucket j's, for every input order of the records.
C16_CohortsAscendingByPeriod ==
  /\ cohortData # NULL =>
       AscendingPeriods("week",
                        [c \in 1..Len(cohortData[1]) |-> cohortData[1][c].signupDate])
  /\ scriptCohortData # NULL /\ cohortPeriod[1] \in CohortPeriods =>
       AscendingPeriods(cohortPeriod[1],
                        [c \in 1..Len(scriptCohortData[1]) |->
                           scriptCohortData[1][c].signupDate])

\* The records whose start lies in the period, of the granularity, that
\* holds the date.
InPeriodOf(period, date) ==
  {i \in 1..Len(profiles) :
     SamePeriod(period, profiles[i].firstSubscriptionDate.day, ParseISODate(date))}

\* The cohorts are the groups of the records by the granularity: one
\* cohort per period that holds a record, counting the records of the period.
GroupedBy(period, cohorts) ==
  /\ Len(cohorts)
       = Cardinality({PeriodStart(period, profiles[i].firstSubscriptionDate.day) :
                        i \in 1..Len(profiles)})
  /\ \A c \in 1..Len(cohorts) :
       cohorts[c].subscribers = Cardinality(InPeriodOf(period, cohorts[c].signupDate))

\* C17: the orchestration entry point groups cohorts by the granularity it
\* is given (day by calendar date, week by Monday-based week, month by
\* calendar month) and by week only when none is supplied; a run requested
\* with day or month never returns weekly cohorts.
C17_GroupsByRequestedGranularity ==
  pc = "returned" => GroupedBy(CohortPeriodArgument(cohortPeriod), cohortData[1])

\* The granularity given is none of day, week and month.
UnknownGranularity ==
  cohortPeriod # NULL /\ cohortPeriod[1] \notin CohortPeriods

\* C18: a granularity value other than day, week or month is reported to
\* the caller as an invalid-configuration error and produces no cohort
\* result; it is never silently treated as one of the three valid values:
\* the request ends as invalid input, and nothing has been computed.
C18_UnknownGranularityIsRejected ==
  UnknownGranularity => pc = "invalid" /\ NoResults

\* A request with cohortPeriod 'year' has been answered as invalid input.
C18_Witness ==
  pc = "invalid" /\ cohortPeriod = Some("year") /\ cohortData = NULL

\* Every ordering of the elements of a list.
Orderings(list) ==
  LET n == Len(list)
      shuffles == {f \in [1..n -> 1..n] : \A i, j \in 1..n : i # j => f[i] # f[j]}
  IN {[i \in 1..n |-> list[f[i]]] : f \in shuffles}

\* Every event of both input lists is well formed for the implementation.
ServiceInputsWellFormed ==
  /\ \A i \in 1..Len(subscriptionEvents) : ServiceWellFormed(subscriptionEvents[i])
  /\ \A i \in 1..Len(orderEvents) : ServiceWellFormed(orderEvents[i])
ScriptInputsWellFormed ==
  /\ \A i \in 1..Len(subscriptionEvents) : ScriptWellFormed(subscriptionEvents[i])
  /\ \A i \in 1..Len(orderEvents) : ScriptWellFormed(orderEvents[i])

\* The service's statistics and cohorts for another ordering of the inputs
\* are the ones of this run.
ServiceSameResult(starts, conversions) ==
  LET p == MatchSubscriptionsToOrders(ProcessSubscriptionEvents(starts),
                                      ProcessOrderEvents(conversions))
  IN /\ CalculateStatistics(p) = statistics[1]
     /\ GenerateCohortData(p) = cohortData[1]

\* The script's statistics, distribution and cohorts for another ordering of
\* the inputs are the ones of this run.
ScriptSameResult(starts, conversions) ==
  LET d == ProcessEvents(starts, conversions)
  IN /\ ScriptCalculateStatistics(d) = scriptStatistics[1]
     /\ CalculateDistribution(d) = distribution[1]
     /\ ScriptGenerateCohortData(d, "week") = scriptCohortData[1]

\* C19: the engine's result is invariant under permutation of its inputs:
\* for any two orderings of the same start-event list and the same
\* conversion-event list, the statistics, the distribution and the sorted
\* list of cohorts (with each cohort's date and label) are identical.
C19_ResultInvariantUnderPermutation ==
  /\ pc = "returned" /\ ServiceInputsWellFormed =>
       \A starts \in Orderings(subscriptionEvents),
          conversions \in Orderings(orderEvents) :
         ServiceSameResult(starts, conversions)
  /\ pc = "analyzed" /\ ScriptInputsWellFormed =>
       \A starts \in Orderings(subscriptionEvents),
          conversions \in Orderings(orderEvents) :
         ScriptSameResult(starts, conversions)

\* mean, median, standard deviation and the four percentiles are all 0 (the
\* standard deviation is the square root of the variance).
ZeroLatencyStatistics(st) ==
  /\ st.meanDaysToFirstOrder.num = 0
  /\ st.medianDaysToFirstOrder = 0
  /\ st.variance.num = 0
  /\ st.percentiles = [p25 |-> 0, p75 |-> 0, p90 |-> 0, p95 |-> 0]

\* The statistics of an empty population.
ZeroStatistics(st) ==
  /\ st.totalSubscribers = 0
  /\ st.subscribersWithOrder = 0
  /\ st.conversionRate.num = 0
  /\ ZeroLatencyStatistics(st)

\* No start event of the run is a valid one.
ServiceNoValidStart ==
  \A i \in 1..Len(subscriptionEvents) : ~ServiceWellFormed(subscriptionEvents[i])
ScriptNoValidStart ==
  \A i \in 1..Len(subscriptionEvents) : ~ScriptWellFormed(subscriptionEvents[i])

\* C20: with an empty population (no valid start events) the engine returns
\* normally with totalEntities, convertedEntities, conversionRate, mean,
\* median, standard deviation and all four percentiles 0, an empty cohort
\* list and an all-zero distribution; the latency statistics are the same
\* zeros when the population is non-empty but nobody converted.
C20_EmptyPopulationGivesZeros ==
  /\ ServiceRan /\ ServiceNoValidStart =>
       /\ pc = "returned"
       /\ ZeroStatistics(statistics[1])
       /\ cohortData = Some(<<>>)
  /\ pc \in {"analyzed", "analysisThrew"} /\ ScriptNoValidStart =>
       /\ pc = "analyzed"
       /\ ZeroStatistics(scriptStatistics[1])
       /\ scriptCohortData = Some(<<>>)
       /\ BucketSum(distribution[1]) = 0
  /\ ServiceRan /\ ConvertedIn(profiles, All(profiles)) = {} =>
       ZeroLatencyStatistics(statistics[1])
  /\ pc \in {"analyzed", "analysisThrew"}
       /\ ConvertedIn(profileData, All(profileData)) = {} =>
       ZeroLatencyStatistics(scriptStatistics[1])

\* Scenario A: one start entity A at day 0 with a conversion at day 10.
ScenarioA ==
  /\ subscriptionEvents = <<Event("A", "2025-01-06T00:00:00Z", 0)>>
  /\ orderEvents = <<Event("A", "2025-01-16T00:00:00Z", 0)>>

\* totalEntities = 1, convertedEntities = 1, conversionRate = 1.0,
\* meanDays = 10 and medianDays = 10.
ScenarioAStatistics(st) ==
  /\ st.totalSubscribers = 1
  /\ st.subscribersWithOrder = 1
  /\ st.conversionRate.num = st.conversionRate.den
  /\ st.meanDaysToFirstOrder.num = 10 * st.meanDaysToFirstOrder.den
  /\ st.medianDaysToFirstOrder = 10

\* C21: end to end, for one start entity A at day 0 with a conversion at
\* day 10, the result has totalEntities = 1, convertedEntities = 1,
\* conversionRate = 1.0, meanDays = 10, medianDays = 10 and a distribution
\* with "8-14" = 1 and every other bucket, never included, 0.
C21_ScenarioAEndToEnd ==
  /\ ServiceRan /\ ScenarioA =>
       /\ pc = "returned"
       /\ ScenarioAStatistics(statistics[1])
  /\ pc \in {"analyzed", "analysisThrew"} /\ ScenarioA =>
       /\ pc = "analyzed"
       /\ ScenarioAStatistics(scriptStatistics[1])
       /\ distribution[1].d8to14 = 1
       /\ BucketSum(distribution[1]) = 1

\* ============================================== paginated event fetching
\* KlaviyoService.getAllEventsWithPagination and fetchAllEvents run the same
\* loop: get a page, push its data, extract the cursor of links.next, and
\* go on while there is a cursor. The Klaviyo API is a chain of pages; the
\* cursor of a page is its position in the chain.

\* How many pages a chain holds at most.
MaxPages == 3

\* The forms of a links.next URL: the two that extractCursor looks for and
\* the percent-encoding with lower-case hex digits, which names the same URL.
LinkForms == {"page%5Bcursor%5D=", "page[cursor]=", "page%5bcursor%5d="}

\* extractCursor(nextUrl)
ExtractCursor(nextUrl) ==
  IF nextUrl = NULL THEN NULL
  ELSE IF nextUrl[1].form = "page%5Bcursor%5D=" THEN Some(nextUrl[1].cursor)
  ELSE IF nextUrl[1].form = "page[cursor]=" THEN Some(nextUrl[1].cursor)
  ELSE NULL

\* The chain ends with a page whose links.next is null.
ChainComplete == pages # <<>> /\ pages[Len(pages)].next = NULL

InitPages ==
  /\ pc = "chain"
  /\ EngineIdle
  /\ PlatformIdle

\* The API holds one more page: its data is empty or one event, and its
\* links.next is null or the URL of the following page in one of the forms.
AddPage ==
  /\ pc = "chain"
  /\ Len(pages) < MaxPages
  /\ ~ChainComplete
  /\ \E data \in {<<>>, <<Len(pages) + 1>>},
        next \in {NULL} \cup {Some([form |-> f, cursor |-> Len(pages) + 2]) : f \in LinkForms} :
       /\ Len(pages) + 1 = MaxPages => next = NULL
       /\ pages' = Append(pages, [data |-> data, next |-> next])
  /\ UNCHANGED <<pc, engineVars, allEvents, pageCursor, httpVars, limiterVars, authVars, cacheVars, auditVars, recordVars>>

\* One iteration of the do-while loop: getEvents(pageCursor), push
\* response.data, pageCursor = extractCursor(response.links?.next || null).
FetchPage ==
  /\ \/ pc = "chain" /\ ChainComplete
     \/ pc = "paging"
  /\ LET response == pages[IF pageCursor = NULL THEN 1 ELSE pageCursor[1]]
     IN /\ allEvents' = allEvents \o response.data
        /\ pageCursor' = ExtractCursor(response.next)
        /\ pc' = IF ExtractCursor(response.next) # NULL THEN "paging" ELSE "paged"
  /\ UNCHANGED <<engineVars, pages, httpVars, limiterVars, authVars, cacheVars, auditVars, recordVars>>

NextPages ==
  \/ AddPage
  \/ FetchPage

SpecPages == InitPages /\ [][NextPages]_vars

\* The data of every page of the chain, in page order.
RECURSIVE DataOfChain(_)
DataOfChain(chain) ==
  IF chain = <<>> THEN <<>> ELSE Head(chain).data \o DataOfChain(Tail(chain))

\* C22: paginated fetching keeps requesting pages until a response's
\* links.next is null: the returned list is the concatenation, in page
\* order, of the data of every page of the chain, and the loop stops at no
\* earlier page, whatever the URL form of links.next.
C22_FetchesEveryPage ==
  pc = "paged" => allEvents = DataOfChain(pages)

\* ================================================= one page fetch over HTTP
\* KlaviyoService.getEvents hands KlaviyoService.request to retry().
\* request loops over its attempts; retry calls request again whenever
\* request throws.

\* const maxRetries = 3 in KlaviyoService.request
MaxRetries == 3

\* { retries: 3, delay: 500 } in KlaviyoService.getEvents
GetEventsRetries == 3

\* The statuses the API answers a request with.
Statuses == {200, 400, 404, 500}

\* status >= 400 && status < 500
IsClientError(status) == status >= 400 /\ status < 500

KlaviyoApiError == "Klaviyo API Error"
AttemptsExhausted == "Klaviyo API request failed after 3 attempts"

\* getEvents has just called retry(() => this.request(endpoint), ...).
InitHttp ==
  /\ pc = "requesting"
  /\ EngineIdle
  /\ PagesIdle
  /\ LimiterIdle
  /\ AuthIdle
  /\ CacheIdle
  /\ AuditIdle
  /\ AnalysesIdle
  /\ attempt = 1
  /\ retries = GetEventsRetries
  /\ responses = <<>>
  /\ lastError = NULL

\* The catch block of retry: give up when no retries are left, otherwise
\* sleep and call fn, that is request, again from its first attempt.
RetryCatch(error) ==
  IF retries <= 0
  THEN /\ pc' = "fetchFailed"
       /\ lastError' = Some(error)
       /\ UNCHANGED <<attempt, retries>>
  ELSE /\ retries' = retries - 1
       /\ attempt' = 1
       /\ UNCHANGED <<pc, lastError>>

\* The request succeeds: request returns response.data, and so does retry.
HttpSuccess ==
  /\ pc = "requesting"
  /\ responses' = Append(responses, 200)
  /\ pc' = "fetched"
  /\ UNCHANGED <<engineVars, pageVars, limiterVars, authVars, attempt, retries, lastError, cacheVars, auditVars, recordVars>>

\* The request is answered with a 4xx status: request throws the
\* 'Klaviyo API Error' at once, into the catch block of retry.
HttpClientError ==
  /\ pc = "requesting"
  /\ \E status \in Statuses :
       /\ IsClientError(status)
       /\ responses' = Append(responses, status)
  /\ RetryCatch(KlaviyoApiError)
  /\ UNCHANGED <<engineVars, pageVars, limiterVars, authVars, cacheVars, auditVars, recordVars>>

\* The request fails otherwise: request waits and goes to its next attempt,
\* and after its last attempt throws, into the catch block of retry.
HttpServerError ==
  /\ pc = "requesting"
  /\ \E status \in Statuses :
       /\ status # 200
       /\ ~IsClientError(status)
       /\ responses' = Append(responses, status)
  /\ IF attempt < MaxRetries
     THEN /\ attempt' = attempt + 1
          /\ UNCHANGED <<pc, retries, lastError>>
     ELSE RetryCatch(AttemptsExhausted)
  /\ UNCHANGED <<engineVars, pageVars, limiterVars, authVars, cacheVars, auditVars, recordVars>>

NextHttp ==
  \/ HttpSuccess
  \/ HttpClientError
  \/ HttpServerError

SpecHttp == InitHttp /\ [][NextHttp]_vars

\* C23: a page fetch whose HTTP request is answered with a 4xx status is
\* not retried: that request is the only one getEvents issues, and
\* getEvents then fails with the 'Klaviyo API Error'.
C23_ClientErrorIsNotRetried ==
  \A i \in 1..Len(responses) :
    IsClientError(responses[i]) =>
      /\ Len(responses) = 1
      /\ pc = "fetchFailed"
      /\ lastError = Some(KlaviyoApiError)

\* ============================================================ rate limiter
\* RateLimiter(windowMs, maxRequests) for one identifier. rate-limit.ts
\* imports { redis } from './redis', and redis.ts exports its client only
\* as the default export: in the bundled build the binding redis is
\* undefined whether or not REDIS_URL is set, so check(identifier) never
\* calls checkRedis and reset(identifier) never calls redis.del; both run
\* to their end without an await. Loaded as an ES module rate-limit.ts
\* does not load at all, and no call is made. Time is counted in clock
\* ticks; one tick stands for one millisecond.

\* windowMs, in ticks.
WindowMs == 3

\* maxRequests
MaxRequests == 2

\* How far the clock runs.
MaxClock == 5

\* How many check() and reset() calls are made.
MaxChecks == 4

\* How many calls of a service run at the same time.
MaxConcurrent == 2

\* checkMemory(key, now): the record after the call, and the call's success.
CheckMemory(record, now) ==
  LET current == IF record # NULL /\ record[1].resetAt < now THEN NULL ELSE record
  IN IF current = NULL
     THEN [store |-> Some([count |-> 1, resetAt |-> now + WindowMs]), success |-> TRUE]
     ELSE IF current[1].count >= MaxRequests
     THEN [store |-> current, success |-> FALSE]
     ELSE [store |-> Some([count |-> current[1].count + 1, resetAt |-> current[1].resetAt]),
           success |-> TRUE]

\* The record of a call that has returned from checkMemory.
Finished(now, success, path) ==
  [pc |-> IF success THEN "admitted" ELSE "denied", now |-> now, path |-> path]

\* The build has left REDIS_URL unset, or has set it, or rate-limit.ts has
\* failed to load.
InitLimiter ==
  /\ pc \in {"memory", "redis", "notLoaded"}
  /\ EngineIdle
  /\ PlatformIdle

\* Time passes.
Tick ==
  /\ pc \in {"memory", "redis", "auth"}
  /\ clock < MaxClock
  /\ clock' = clock + 1
  /\ UNCHANGED <<pc, engineVars, pageVars, httpVars, authVars, memoryStore, checks, cacheVars, auditVars, recordVars>>

\* check(identifier): if (redis) is false, and the call returns
\* checkMemory(key, now).
CheckMemoryCall ==
  /\ pc \in {"memory", "redis"}
  /\ Len(checks) < MaxChecks
  /\ LET result == CheckMemory(memoryStore, clock)
     IN /\ memoryStore' = result.store
        /\ checks' = Append(checks, Finished(clock, result.success, "memory"))
  /\ UNCHANGED <<pc, engineVars, pageVars, httpVars, authVars, clock, cacheVars, auditVars, recordVars>>

\* reset(identifier): if (redis) is false, and this.memoryStore.delete(key)
ResetCall ==
  /\ pc \in {"memory", "redis"}
  /\ Len(checks) < MaxChecks
  /\ memoryStore' = NULL
  /\ checks' = Append(checks, [pc |-> "reset", now |-> clock, path |-> "memory"])
  /\ UNCHANGED <<pc, engineVars, pageVars, httpVars, authVars, clock, cacheVars, auditVars, recordVars>>

NextLimiter ==
  \/ Tick
  \/ CheckMemoryCall
  \/ ResetCall

SpecLimiter == InitLimiter /\ [][NextLimiter]_vars

\* The calls that returned success with a time in the span of windowMs that
\* begins at from.
AdmittedWithin(from) ==
  {i \in 1..Len(checks) :
     /\ checks[i].pc = "admitted"
     /\ checks[i].now >= from
     /\ checks[i].now < from + WindowMs}

\* Only check() has been called: no reset() has been called.
OnlyChecks ==
  \A i \in 1..Len(checks) : checks[i].pc # "reset"

\* C24: the rate limiter enforces its limit per identifier: in a sequence of
\* check() calls for one identifier no more than maxRequests calls return
\* success within any time span of windowMs.
C24_AtMostMaxRequestsPerWindow ==
  OnlyChecks =>
    \A from \in 0..MaxClock : Cardinality(AdmittedWithin(from)) <= MaxRequests

\* Several check() calls have run concurrently: two of them were made at
\* the same time.
ConcurrentChecks ==
  \E c, d \in 1..Len(checks) : c # d /\ checks[c].now = checks[d].now

MaxFailedLoginAttempts == 2

\* config.ACCOUNT_LOCKOUT_DURATION_MINUTES, in ticks.
LockoutDuration == 2

\* How many authorize() calls are made.
MaxLogins == 4

\* The credentials of a call: none, the email of no account, the account's
\* email with a wrong password, the account's email with its password.
Credentials == {"missing", "unknown", "wrong", "correct"}

\* auto_unlock_account(): what the trigger function does to a row. The
\* migration attaches it with CREATE TRIGGER ... BEFORE SELECT ON users, an
\* event PostgreSQL triggers do not have, so no statement of authorize ever
\* runs it and the row is read as it is stored.
AutoUnlockAccount(row, now) ==
  IF row.lockedUntil # NULL /\ row.lockedUntil[1] <= now
  THEN [failedLoginAttempts |-> 0, lockedUntil |-> NULL]
  ELSE row

\* prisma.user.findUnique: the row of the account.
FindUnique == [failedLoginAttempts |-> failedLoginAttempts, lockedUntil |-> lockedUntil]

\* user.lockedUntil && new Date(user.lockedUntil) > new Date()
IsLocked(user, now) == user.lockedUntil # NULL /\ user.lockedUntil[1] > now

\* Whether PostgreSQL accepts the UPDATE that authorize sends after a wrong
\* password. The tagged template puts the lockout duration inside a quoted
\* literal: the text sent is ... NOW() + INTERVAL '$3 minutes' ... with four
\* values bound. '$3 minutes' is no interval and $3 is no parameter of the
\* statement, so the statement is rejected and $executeRaw throws.
FailedLoginStatementAccepted == FALSE

\* The row after the UPDATE of a wrong password, from the row the call has
\* read: SET failed_login_attempts = newFailedAttempts, locked_until = CASE
\* WHEN shouldLock THEN NOW() + the lockout duration ELSE locked_until END.
FailedLoginUpdate(row, user, now) ==
  LET newFailedAttempts == user.failedLoginAttempts + 1
      shouldLock == newFailedAttempts >= MaxFailedLoginAttempts
  IN IF FailedLoginStatementAccepted
     THEN [failedLoginAttempts |-> newFailedAttempts,
           lockedUntil |-> IF shouldLock THEN Some(now + LockoutDuration) ELSE row.lockedUntil]
     ELSE row

\* What authorize throws after a wrong password: the error of $executeRaw,
\* or its own error after the UPDATE and auditLog.
FailedLoginError(user) ==
  IF ~FailedLoginStatementAccepted
  THEN "Raw query failed"
  ELSE IF user.failedLoginAttempts + 1 >= MaxFailedLoginAttempts
  THEN "Account locked due to too many failed attempts"
  ELSE "Invalid email or password"

\* The calls that have not returned or thrown.
Authorizing == {c \in 1..Len(logins) : logins[c].pc # "done"}

InitAuth ==
  /\ pc = "auth"
  /\ EngineIdle
  /\ PlatformIdle

\* What a step of authorize that does not write the row leaves alone.
AuthFrame ==
  UNCHANGED <<pc, engineVars, pageVars, httpVars, limiterVars, cacheVars, auditVars, recordVars>>

\* authorize(credentials) is called: without an email or a password it
\* awaits auditLog and will throw, otherwise it sends findUnique.
BeginAuthorize ==
  /\ pc = "auth"
  /\ Len(logins) < MaxLogins
  /\ Cardinality(Authorizing) < MaxConcurrent
  /\ \E credentials \in Credentials :
       logins' = Append(logins,
         [pc |-> IF credentials = "missing" THEN "auditLog" ELSE "findUnique",
          result |-> IF credentials = "missing"
                     THEN "Please enter an email and password" ELSE "pending",
          credentials |-> credentials,
          user |-> NULL,
          audited |-> FALSE,
          overlaps |-> Authorizing # {}])
  /\ UNCHANGED <<failedLoginAttempts, lockedUntil>>
  /\ AuthFrame

\* authorize: findUnique resolves, or rejects and ends the call. Without
\* an account, or with a locked one, the call awaits auditLog and will
\* throw; an unlocked account goes on to verifyPassword.
ReadUser ==
  /\ pc = "auth"
  /\ \E c \in 1..Len(logins), rejects \in BOOLEAN :
       /\ logins[c].pc = "findUnique"
       /\ logins' = [logins EXCEPT ![c] =
            IF rejects
            THEN [@ EXCEPT !.pc = "done", !.result = "findUnique rejected"]
            ELSE IF logins[c].credentials = "unknown"
            THEN [@ EXCEPT !.pc = "auditLog", !.result = "Invalid email or password"]
            ELSE IF IsLocked(FindUnique, clock)
            THEN [@ EXCEPT !.user = Some(FindUnique),
                           !.pc = "auditLog", !.result = "Account temporarily locked"]
            ELSE [@ EXCEPT !.user = Some(FindUnique), !.pc = "verifyPassword"]]
  /\ UNCHANGED <<failedLoginAttempts, lockedUntil>>
  /\ AuthFrame

\* authorize: verifyPassword (bcrypt.compare) resolves, and the UPDATE for
\* a wrong or for the right password is sent; or it rejects and ends the
\* call.
VerifyPassword ==
  /\ pc = "auth"
  /\ \E c \in 1..Len(logins), rejects \in BOOLEAN :
       /\ logins[c].pc = "verifyPassword"
       /\ logins' = [logins EXCEPT ![c] =
            IF rejects
            THEN [@ EXCEPT !.pc = "done", !.result = "verifyPassword rejected"]
            ELSE [@ EXCEPT !.pc = "update"]]
  /\ UNCHANGED <<failedLoginAttempts, lockedUntil>>
  /\ AuthFrame

\* authorize: the UPDATE after a wrong password is answered: rejected, it
\* ends the call with the error of $executeRaw; accepted, the call awaits
\* auditLog and will throw.
WriteFailedLogin ==
  /\ pc = "auth"
  /\ \E c \in 1..Len(logins) :
       /\ logins[c].pc = "update"
       /\ logins[c].credentials = "wrong"
       /\ LET row == FailedLoginUpdate(FindUnique, logins[c].user[1], clock)
          IN /\ failedLoginAttempts' = row.failedLoginAttempts
             /\ lockedUntil' = row.lockedUntil
       /\ logins' = [logins EXCEPT
            ![c].pc = IF FailedLoginStatementAccepted THEN "auditLog" ELSE "done",
            ![c].result = FailedLoginError(logins[c].user[1])]
  /\ AuthFrame

\* authorize: the UPDATE after the right password is answered: it has
\* reset the failed attempts and the lock, and the call awaits auditLog
\* and will return the user; or it is rejected and ends the call.
WriteLogin ==
  /\ pc = "auth"
  /\ \E c \in 1..Len(logins), rejects \in BOOLEAN :
       /\ logins[c].pc = "update"
       /\ logins[c].credentials = "correct"
       /\ IF rejects
            THEN /\ logins' = [logins EXCEPT ![c].pc = "done", ![c].result = "UPDATE rejected"]
                 /\ UNCHANGED <<failedLoginAttempts, lockedUntil>>
            ELSE /\ failedLoginAttempts' = 0
                 /\ lockedUntil' = NULL
                 /\ logins' = [logins EXCEPT ![c].pc = "auditLog", ![c].result = "logged in"]
  /\ AuthFrame

\* authorize: auditLog resolves, and the call throws its error or returns
\* the user. auditLog catches a rejected INSERT, so it resolves either way;
\* audited records whether the row of audit_logs was written.
AuditLogged ==
  /\ pc = "auth"
  /\ \E c \in 1..Len(logins), rejects \in BOOLEAN :
       /\ logins[c].pc = "auditLog"
       /\ logins' = [logins EXCEPT ![c].pc = "done", ![c].audited = ~rejects]
  /\ UNCHANGED <<failedLoginAttempts, lockedUntil>>
  /\ AuthFrame

NextAuth ==
  \/ Tick
  \/ BeginAuthorize
  \/ ReadUser
  \/ VerifyPassword
  \/ WriteFailedLogin
  \/ WriteLogin
  \/ AuditLogged

SpecAuth == InitAuth /\ [][NextAuth]_vars

\* The account is locked at the given time.
LockedAt(until, now) == until # NULL /\ until[1] > now

\* The calls of the run are made one after the other: none has begun while
\* another was running.
OneAfterTheOther(calls) == \A d \in 1..Len(calls) : ~calls[d].overlaps

\* The results of a call that a failing database or bcrypt has ended.
Rejections == {"findUnique rejected", "verifyPassword rejected", "UPDATE rejected"}

\* The step ends the authorize() call c, made with the account's email.
EndsLogin(c) ==
  /\ logins'[c].pc = "done"
  /\ logins'[c].credentials \in {"wrong", "correct"}
  /\ logins'[c].result \notin Rejections
  /\ c <= Len(logins) /\ logins[c].pc # "done"

\* The step is the lock check of call c: findUnique has resolved for the
\* account's email.
ChecksLock(c) ==
  /\ c <= Len(logins)
  /\ logins[c].pc = "findUnique"
  /\ logins'[c].user # NULL

\* C25: account lockout in authorize, for attempts made one after the
\* other while the database answers: when the first
\* MAX_FAILED_LOGIN_ATTEMPTS attempts have a wrong password the account has
\* its lock at the end of the last of them; an attempt that finds
\* lockedUntil in the future is rejected as locked, the correct password
\* included, and no step of it changes failedLoginAttempts or lockedUntil;
\* an attempt that finds the lock expired logs in with the correct
\* password, and with a wrong password it does not lock the account again.
C25_LockoutAndUnlock ==
  [][OneAfterTheOther(logins') =>
       \A c \in 1..Len(logins') :
         /\ EndsLogin(c) /\ c = MaxFailedLoginAttempts
              /\ (\A d \in 1..c : logins'[d].credentials = "wrong"
                                  /\ logins'[d].result \notin Rejections) =>
              lockedUntil' # NULL
         /\ ChecksLock(c) =>
              (LockedAt(lockedUntil, clock) <=> logins'[c].result = "Account temporarily locked")
         /\ logins'[c].result = "Account temporarily locked" =>
              UNCHANGED <<failedLoginAttempts, lockedUntil>>
         /\ EndsLogin(c) /\ logins'[c].user[1].lockedUntil # NULL
              /\ logins'[c].result # "Account temporarily locked" =>
              IF logins'[c].credentials = "correct"
              THEN logins'[c].result = "logged in"
              ELSE ~LockedAt(lockedUntil', clock')]_vars

\* The calls that have failed on the password.
FailedLogins ==
  {c \in 1..Len(logins) :
     /\ logins[c].credentials = "wrong"
     /\ logins[c].pc = "done"
     /\ logins[c].result \in {"Raw query failed", "Invalid email or password",
                              "Account locked due to too many failed attempts"}}

\* Wrong-password attempts have been processed concurrently: every call
\* had a wrong password and got its answers from the database and from
\* bcrypt, at least one began while another was running, and all have
\* ended.
ConcurrentWrongPasswords ==
  /\ pc = "auth"
  /\ \A c \in 1..Len(logins) :
       logins[c].credentials = "wrong" /\ logins[c].result \notin Rejections
  /\ \E c \in 1..Len(logins) : logins[c].overlaps
  /\ Authorizing = {}

\* C30: when wrong-password login attempts for one account are processed
\* concurrently no failed attempt is lost: after k failed attempts
\* failedLoginAttempts is k, and the account is locked no later than the
\* MAX_FAILED_LOGIN_ATTEMPTS-th failed attempt, for every interleaving.
C30_NoFailedAttemptLost ==
  ConcurrentWrongPasswords =>
    /\ failedLoginAttempts = Cardinality(FailedLogins)
    /\ Cardinality(FailedLogins) >= MaxFailedLoginAttempts => lockedUntil # NULL

\* ============================================================ cache service
\* CacheService in front of Redis: get(key, fetchFn, ttl), set, del and
\* delPattern. fetchFn resolves to the current version of the source, a
\* JSON value. The calls run at the same time and interleave at their
\* awaits: redis.get, fetchFn and redis.setex of get, redis.keys and
\* redis.del of delPattern. A call in gets is at the await it waits for, or
\* has returned.

\* How many versions the source goes through.
MaxVersions == 2

\* How many get and delPattern calls are made.
MaxGets == 2

\* The ttl arguments: the default and the one of getMetrics.
Ttls == {300, 3600}

\* JSON.stringify(data) and JSON.parse(cached) of a JSON number.
JSONStringify(data) == [json |-> data]
JSONParse(text) == text.json

\* The calls that have not returned.
Getting ==
  {c \in 1..Len(gets) : gets[c].pc \in {"get", "fetchFn", "setex", "catch", "keys", "del"}}

\* The cache runs with Redis or, when REDIS_URL is not set, without it.
InitCache ==
  /\ pc \in {"cache", "nocache"}
  /\ EngineIdle
  /\ PlatformIdle

\* What every step of the cache leaves alone.
CacheFrame ==
  UNCHANGED <<pc, engineVars, pageVars, httpVars, limiterVars, authVars, auditVars, recordVars>>

\* The source changes.
UpstreamChange ==
  /\ pc \in {"cache", "nocache"}
  /\ upstream < MaxVersions
  /\ upstream' = upstream + 1
  /\ UNCHANGED <<cacheEntries, gets>>
  /\ CacheFrame

\* Redis drops a key whose ttl has run out.
ExpireKey ==
  /\ pc = "cache"
  /\ \E key \in CacheKeys :
       /\ cacheEntries[key] # NULL
       /\ cacheEntries' = [cacheEntries EXCEPT ![key] = NULL]
  /\ UNCHANGED <<upstream, gets>>
  /\ CacheFrame

\* get(key, fetchFn, ttl) is called: without Redis it returns fetchFn(),
\* with Redis it sends redis.get(key). A call holds what redis.get has
\* answered, what the first fetchFn call has resolved to, which operation
\* has failed, how often fetchFn was called, what was stored, and what get
\* resolved to (NULL when it rejected); a delPattern call holds the keys
\* that redis.keys has found.
BeginGet ==
  /\ pc \in {"cache", "nocache"}
  /\ Len(gets) < MaxGets
  /\ Cardinality(Getting) < MaxConcurrent
  /\ \E key \in CacheKeys, ttl \in Ttls :
       gets' = Append(gets,
         [pc |-> IF pc = "nocache" THEN "catch" ELSE "get",
          key |-> key, ttl |-> ttl, cached |-> NULL, data |-> NULL, failed |-> "none",
          fetchCalls |-> IF pc = "nocache" THEN 1 ELSE 0,
          stored |-> NULL, returned |-> NULL, keys |-> {}])
  /\ UNCHANGED <<cacheEntries, upstream>>
  /\ CacheFrame

\* get: redis.get(key) resolves or rejects. A hit returns the parsed value,
\* a miss calls fetchFn, a rejection goes to the catch block, which returns
\* fetchFn().
RedisGet ==
  /\ pc = "cache"
  /\ \E c \in 1..Len(gets), rejects \in BOOLEAN :
       /\ gets[c].pc = "get"
       /\ gets' = [gets EXCEPT ![c] =
            IF rejects
            THEN [@ EXCEPT !.pc = "catch", !.failed = "get", !.fetchCalls = @ + 1]
            ELSE IF cacheEntries[gets[c].key] # NULL
            THEN [@ EXCEPT !.pc = "returned",
                           !.cached = cacheEntries[gets[c].key],
                           !.returned = Some(JSONParse(cacheEntries[gets[c].key][1].text))]
            ELSE [@ EXCEPT !.pc = "fetchFn", !.fetchCalls = @ + 1]]
  /\ UNCHANGED <<cacheEntries, upstream>>
  /\ CacheFrame

\* get: the fetchFn call of the try block resolves, and redis.setex is
\* sent, or it rejects, and the catch block returns fetchFn().
Fetch ==
  /\ pc = "cache"
  /\ \E c \in 1..Len(gets), rejects \in BOOLEAN :
       /\ gets[c].pc = "fetchFn"
       /\ gets' = [gets EXCEPT ![c] =
            IF rejects
            THEN [@ EXCEPT !.pc = "catch", !.failed = "fetchFn", !.fetchCalls = @ + 1]
            ELSE [@ EXCEPT !.pc = "setex", !.data = Some(upstream)]]
  /\ UNCHANGED <<cacheEntries, upstream>>
  /\ CacheFrame

\* get: redis.setex(key, ttl, JSON.stringify(data)) resolves, and get
\* returns data, or it rejects, and the catch block returns fetchFn().
StoreResult ==
  /\ pc = "cache"
  /\ \E c \in 1..Len(gets), rejects \in BOOLEAN :
       /\ gets[c].pc = "setex"
       /\ LET entry == Some([text |-> JSONStringify(gets[c].data[1]), ttl |-> gets[c].ttl])
          IN IF rejects
             THEN /\ gets' = [gets EXCEPT ![c].pc = "catch", ![c].failed = "setex",
                                          ![c].fetchCalls = @ + 1]
                  /\ UNCHANGED cacheEntries
             ELSE /\ gets' = [gets EXCEPT ![c].pc = "returned", ![c].stored = entry,
                                          ![c].returned = gets[c].data]
                  /\ cacheEntries' = [cacheEntries EXCEPT ![gets[c].key] = entry]
  /\ UNCHANGED upstream
  /\ CacheFrame

\* get: the fetchFn call that get returns, in the catch block or without
\* Redis, resolves or rejects, and get with it.
ReturnFetch ==
  /\ pc \in {"cache", "nocache"}
  /\ \E c \in 1..Len(gets), rejects \in BOOLEAN :
       /\ gets[c].pc = "catch"
       /\ gets' = [gets EXCEPT
            ![c].pc = IF rejects THEN "rejected" ELSE "returned",
            ![c].returned = IF rejects THEN NULL ELSE Some(upstream)]
  /\ UNCHANGED <<cacheEntries, upstream>>
  /\ CacheFrame

\* set(key, value, ttl): redis.setex(key, ttl, JSON.stringify(value)). A
\* rejection is logged and changes nothing, as does a call without Redis.
CacheSet ==
  /\ pc = "cache"
  /\ \E key \in CacheKeys, ttl \in Ttls, value \in 1..MaxVersions :
       cacheEntries' = [cacheEntries EXCEPT
         ![key] = Some([text |-> JSONStringify(value), ttl |-> ttl])]
  /\ UNCHANGED <<upstream, gets>>
  /\ CacheFrame

\* del(key): redis.del(key). A rejection is logged and changes nothing.
CacheDel ==
  /\ pc = "cache"
  /\ \E key \in CacheKeys :
       cacheEntries' = [cacheEntries EXCEPT ![key] = NULL]
  /\ UNCHANGED <<upstream, gets>>
  /\ CacheFrame

\* delPattern(pattern) is called with a pattern that matches every key of
\* the cache, and sends redis.keys(pattern).
BeginDelPattern ==
  /\ pc = "cache"
  /\ Len(gets) < MaxGets
  /\ Cardinality(Getting) < MaxConcurrent
  /\ gets' = Append(gets,
       [pc |-> "keys", key |-> "klaviyo:metrics:*", ttl |-> 300, cached |-> NULL, data |-> NULL,
        failed |-> "none", fetchCalls |-> 0, stored |-> NULL, returned |-> NULL, keys |-> {}])
  /\ UNCHANGED <<cacheEntries, upstream>>
  /\ CacheFrame

\* delPattern: redis.keys(pattern) resolves to the keys that are stored:
\* with no key the call returns, otherwise it sends redis.del(...keys). Or
\* it rejects: the catch block logs the error and the call returns.
CacheKeysOfPattern ==
  /\ pc = "cache"
  /\ \E c \in 1..Len(gets), rejects \in BOOLEAN :
       /\ gets[c].pc = "keys"
       /\ LET keys == {key \in CacheKeys : cacheEntries[key] # NULL}
          IN gets' = [gets EXCEPT ![c] =
               IF rejects
               THEN [@ EXCEPT !.pc = "deleted", !.failed = "keys"]
               ELSE [@ EXCEPT !.keys = keys,
                              !.pc = IF keys = {} THEN "deleted" ELSE "del"]]
  /\ UNCHANGED <<cacheEntries, upstream>>
  /\ CacheFrame

\* delPattern: redis.del(...keys) removes the keys that redis.keys has
\* found. Or it rejects: the keys stay, the catch block logs the error and
\* the call returns.
CacheDelKeys ==
  /\ pc = "cache"
  /\ \E c \in 1..Len(gets), rejects \in BOOLEAN :
       /\ gets[c].pc = "del"
       /\ IF rejects
            THEN /\ gets' = [gets EXCEPT ![c].pc = "deleted", ![c].failed = "del"]
                 /\ UNCHANGED cacheEntries
            ELSE /\ cacheEntries' = [key \in CacheKeys |->
                      IF key \in gets[c].keys THEN NULL ELSE cacheEntries[key]]
                 /\ gets' = [gets EXCEPT ![c].pc = "deleted"]
  /\ UNCHANGED upstream
  /\ CacheFrame

NextCache ==
  \/ UpstreamChange
  \/ ExpireKey
  \/ BeginGet
  \/ RedisGet
  \/ Fetch
  \/ StoreResult
  \/ ReturnFetch
  \/ CacheSet
  \/ CacheDel
  \/ BeginDelPattern
  \/ CacheKeysOfPattern
  \/ CacheDelKeys

SpecCache == InitCache /\ [][NextCache]_vars

\* C26: CacheService.get returns the cached value without calling fetchFn
\* when the key is present; on a miss it calls fetchFn exactly once, stores
\* the result under the key with the given ttl and returns it; when a Redis
\* operation fails the caller still gets the fetched data, and fetchFn is
\* never invoked more than once per get call.
C26_GetFetchesAtMostOnce ==
  \A c \in 1..Len(gets) :
    LET call == gets[c]
    IN /\ call.fetchCalls <= 1
       /\ call.pc = "returned" /\ call.cached # NULL =>
            /\ call.fetchCalls = 0
            /\ call.returned = Some(JSONParse(call.cached[1].text))
       /\ call.pc = "returned" /\ pc = "cache" /\ call.failed = "none" /\ call.cached = NULL =>
            /\ call.fetchCalls = 1
            /\ call.stored = Some([text |-> JSONStringify(call.data[1]), ttl |-> call.ttl])
            /\ call.returned = call.data
       /\ call.pc = "returned" /\ call.failed \in {"get", "setex"} =>
            call.returned # NULL /\ call.returned[1] \in 1..MaxVersions

\* ================================================================ audit log
\* auditLog(data) sanitizes data.metadata before it writes the row.

\* How deep the metadata of a caller is nested.
MaxNesting == 3

\* const sensitiveKeys = [...]
SensitiveKeys ==
  {"password", "passwordHash", "apiKey", "api_key", "token", "secret",
   "klaviyoApiKey", "klaviyoApiKeyEncrypted", "encryptionKey"}

\* The keys callers use.
MetadataKeys == {"email", "password", "apiKey"}

Redacted == JsonString("[REDACTED]")

\* sanitizeMetadata(metadata): a shallow copy in which the sensitive keys
\* are overwritten, and then every value that is an object and not an
\* array is replaced by its sanitized copy.
RECURSIVE SanitizeMetadata(_)
SanitizeMetadata(object) ==
  LET redacted == [i \in 1..Len(object.children) |->
                     IF object.children[i].key \in SensitiveKeys
                     THEN [key |-> object.children[i].key, value |-> Redacted]
                     ELSE object.children[i]]
  IN JsonObject([i \in 1..Len(redacted) |->
                   IF redacted[i].value.type = "object"
                   THEN [key |-> redacted[i].key, value |-> SanitizeMetadata(redacted[i].value)]
                   ELSE redacted[i]])

\* How deep a value is nested.
RECURSIVE Nesting(_)
Nesting(value) ==
  IF value.children = <<>> THEN 0 ELSE 1 + Nesting(value.children[1].value)

InitAudit ==
  /\ pc = "metadata"
  /\ EngineIdle
  /\ PlatformIdle

\* The caller builds its metadata: the value so far goes under a key of a
\* new object, or into a new array.
WrapMetadata ==
  /\ pc = "metadata"
  /\ Nesting(metadata) < MaxNesting
  /\ \/ \E key \in MetadataKeys :
          metadata' = JsonObject(<<[key |-> key, value |-> metadata]>>)
     \/ metadata' = JsonArray(<<[key |-> "0", value |-> metadata]>>)
  /\ UNCHANGED <<pc, engineVars, pageVars, httpVars, limiterVars, authVars, cacheVars, sanitizedMetadata, recordVars>>

\* auditLog({ ..., metadata }): the row's metadata column is the sanitized
\* copy; the caller's object is left as it is.
AuditLog ==
  /\ pc = "metadata"
  /\ metadata.type = "object"
  /\ sanitizedMetadata' = Some(SanitizeMetadata(metadata))
  /\ pc' = "logged"
  /\ UNCHANGED <<engineVars, pageVars, httpVars, limiterVars, authVars, cacheVars, metadata, recordVars>>

NextAudit ==
  \/ WrapMetadata
  \/ AuditLog

SpecAudit == InitAudit /\ [][NextAudit]_vars

\* No value under a sensitive key of an object is left as it was, at any
\* depth of the value.
RECURSIVE NothingSensitive(_)
NothingSensitive(value) ==
  \A i \in 1..Len(value.children) :
    /\ value.type = "object" /\ value.children[i].key \in SensitiveKeys =>
         value.children[i].value = Redacted
    /\ NothingSensitive(value.children[i].value)

\* C27: sanitizeMetadata removes sensitive information at every depth: in
\* the metadata written to the audit log no value stored under a sensitive
\* key remains unredacted, whether the key is at top level, in a nested
\* object, or in an object inside an array.
C27_RedactsAtEveryDepth ==
  pc = "logged" => NothingSensitive(sanitizedMetadata[1])

\* ===================================================== analysis life cycle
\* POST /api/analysis creates a row of the analyses table and starts
\* runAnalysisBackground for it without awaiting it; the runs of several
\* analyses interleave at their awaits, and DELETE /api/analysis/[id] removes
\* a row whatever its status, also while its run goes on. A row is modelled
\* with the columns id, status, startedAt, results, errorMessage and
\* eventsProcessed;
\* runs[id] holds the position and the locals of the run that was started
\* for the row with that id (the number of events stands for the events).

\* How many analyses are created.
MaxAnalyses == 2

\* How many events a getAllEvents call may return.
EventCounts == {0, 1}

\* The errors getAllEvents and runAnalysis throw: one with a message and
\* one without.
BackgroundErrors == {"Klaviyo API Error", ""}

\* prisma.analysis.create({ data: { ..., status: 'pending', ... } })
CreateAnalysis(id) ==
  [id |-> id, status |-> "pending", startedAt |-> NULL, results |-> NULL,
   errorMessage |-> NULL, eventsProcessed |-> NULL]

\* UPDATE analyses SET status = 'running', started_at = NOW()
MarkRunning(row) == [row EXCEPT !.status = "running", !.startedAt = Some("NOW()")]

\* UPDATE analyses SET status = 'completed', results = ..., events_processed = ...
MarkCompleted(row, results) ==
  [row EXCEPT !.status = "completed",
              !.results = Some(results),
              !.eventsProcessed = Some(results.startEvents + results.conversionEvents)]

\* A run that sets the error message and forgets the status.
MarkFailedKeepingStatus(row, error) ==
  [row EXCEPT !.errorMessage = Some(IF error = "" THEN "Unknown error" ELSE error)]

\* UPDATE analyses SET status = 'failed', error_message = error.message || 'Unknown error'
MarkFailed(row, error) ==
  [row EXCEPT !.status = "failed",
              !.errorMessage = Some(IF error = "" THEN "Unknown error" ELSE error)]

\* analysisService.runAnalysis(startEvents, conversionEvents, cohortPeriod),
\* as far as the life cycle needs it.
AnalysisResults(run) ==
  [startEvents |-> run.startEvents[1], conversionEvents |-> run.conversionEvents[1]]

\* The rows that WHERE id = ... matches: one, or none after a DELETE.
RowsWithId(id) == {i \in 1..Len(analyses) : analyses[i].id = id}

InitAnalyses ==
  /\ pc = "analyses"
  /\ EngineIdle
  /\ PlatformIdle

\* What every step of the life cycle leaves alone.
LifeCycleFrame ==
  UNCHANGED <<pc, engineVars, pageVars, httpVars, limiterVars, authVars, cacheVars, auditVars>>

\* POST /api/analysis with a valid body: the row is created and its run is
\* started.
PostAnalysis ==
  /\ pc = "analyses"
  /\ Len(runs) < MaxAnalyses
  /\ analyses' = Append(analyses, CreateAnalysis(Len(runs) + 1))
  /\ runs' = Append(runs, [step |-> "created", startEvents |-> NULL, conversionEvents |-> NULL])
  /\ LifeCycleFrame

\* DELETE /api/analysis/[id] for a row that findFirst finds: the row is
\* removed, its run is not stopped.
DeleteAnalysis ==
  /\ pc = "analyses"
  /\ \E i \in 1..Len(analyses) :
       analyses' = SubSeq(analyses, 1, i - 1) \o SubSeq(analyses, i + 1, Len(analyses))
  /\ UNCHANGED runs
  /\ LifeCycleFrame

\* runAnalysisBackground: the first UPDATE.
SetRunning ==
  /\ pc = "analyses"
  /\ \E id \in 1..Len(runs) :
       /\ runs[id].step = "created"
       /\ analyses' = [i \in 1..Len(analyses) |->
            IF i \in RowsWithId(id) THEN MarkRunning(analyses[i]) ELSE analyses[i]]
       /\ runs' = [runs EXCEPT ![id].step = "running"]
  /\ LifeCycleFrame

\* runAnalysisBackground: a getAllEvents call resolves, first the one for
\* the start metric, then the one for the conversion metric.
FetchEvents ==
  /\ pc = "analyses"
  /\ \E id \in 1..Len(runs), count \in EventCounts :
       \/ /\ runs[id].step = "running"
          /\ runs' = [runs EXCEPT ![id].startEvents = Some(count),
                                  ![id].step = "fetchedStart"]
       \/ /\ runs[id].step = "fetchedStart"
          /\ runs' = [runs EXCEPT ![id].conversionEvents = Some(count),
                                  ![id].step = "fetchedConversion"]
  /\ UNCHANGED analyses
  /\ LifeCycleFrame

\* runAnalysisBackground: runAnalysis resolves and the results are saved.
SaveResults ==
  /\ pc = "analyses"
  /\ \E id \in 1..Len(runs) :
       /\ runs[id].step = "fetchedConversion"
       /\ analyses' = [i \in 1..Len(analyses) |->
            IF i \in RowsWithId(id)
              THEN MarkCompleted(analyses[i], AnalysisResults(runs[id]))
              ELSE analyses[i]]
       /\ runs' = [runs EXCEPT ![id].step = "saved"]
  /\ LifeCycleFrame

\* runAnalysisBackground: an await of the try block rejects (the UPDATE to
\* running, a getAllEvents call, runAnalysis or the UPDATE to completed),
\* and the catch block runs its UPDATE. When that UPDATE is rejected as
\* well, the run ends with the row as it was.
CatchError ==
  /\ pc = "analyses"
  /\ \E id \in 1..Len(runs), error \in BackgroundErrors, rejects \in BOOLEAN :
       /\ runs[id].step \in {"created", "running", "fetchedStart", "fetchedConversion"}
       /\ IF rejects
            THEN /\ runs' = [runs EXCEPT ![id].step = "rejected"]
                 /\ UNCHANGED analyses
            ELSE /\ analyses' = [i \in 1..Len(analyses) |->
                      IF i \in RowsWithId(id) THEN MarkFailed(analyses[i], error) ELSE analyses[i]]
                 /\ runs' = [runs EXCEPT ![id].step = "caught"]
  /\ LifeCycleFrame

NextAnalyses ==
  \/ PostAnalysis
  \/ DeleteAnalysis
  \/ SetRunning
  \/ FetchEvents
  \/ SaveResults
  \/ CatchError

SpecAnalyses == InitAnalyses /\ [][NextAnalyses]_vars

\* The status changes that the life cycle allows.
StatusChanges ==
  {<<"pending", "running">>, <<"running", "completed">>, <<"running", "failed">>}

\* A row as the claim wants it: no events are fetched while it is pending,
\* results come only with completed, and failed comes with an error message
\* and without results.
RowConsistent(row, run) ==
  /\ row.status = "pending" => run.startEvents = NULL /\ run.conversionEvents = NULL
  /\ row.results # NULL <=> row.status = "completed"
  /\ row.status = "failed" => row.errorMessage # NULL /\ row.results = NULL

\* C28: an analysis record's status follows pending -> running ->
\* (completed | failed) and never changes after completed or failed: it is
\* created as pending, set to running before any events are fetched,
\* results are written only together with status completed, and an error
\* raised while fetching or analysing ends in status failed with an error
\* message and no results. The records are those of the table: a record
\* that DELETE has removed has no status any more.
C28_StatusLifeCycle ==
  [][\A j \in 1..Len(analyses') :
       /\ \A i \in 1..Len(analyses) :
            analyses[i].id = analyses'[j].id =>
              \/ analyses'[j].status = analyses[i].status
              \/ <<analyses[i].status, analyses'[j].status>> \in StatusChanges
       /\ (\A i \in 1..Len(analyses) : analyses[i].id # analyses'[j].id) =>
            /\ analyses'[j].status = "pending"
            /\ analyses'[j].id > Len(runs)
       /\ RowConsistent(analyses'[j], runs'[analyses'[j].id])
       /\ runs'[analyses'[j].id].step = "caught" => analyses'[j].status = "failed"]_vars

\* C28, amended: an analysis record's status follows pending -> running ->
\* (completed | failed), or goes from pending straight to failed when the
\* UPDATE to running is rejected, and never changes after completed or
\* failed: it is created as pending, it has been set to running (and has
\* its started_at) before any events are fetched, results are written only
\* together with status completed, and a run whose catch block has written
\* its UPDATE leaves the status failed with an error message and no
\* results; a run whose catch block's UPDATE is rejected leaves the record
\* as it was.
C28_AmendedLifeCycle ==
  [][\A j \in 1..Len(analyses') :
       LET id == analyses'[j].id
       IN /\ \A i \in 1..Len(analyses) :
               analyses[i].id = id =>
                 \/ analyses'[j].status = analyses[i].status
                 \/ <<analyses[i].status, analyses'[j].status>> \in StatusChanges
                 \/ /\ <<analyses[i].status, analyses'[j].status>> = <<"pending", "failed">>
                    /\ runs[id].step = "created"
                    /\ analyses'[j].startedAt = NULL
          /\ (\A i \in 1..Len(analyses) : analyses[i].id # id) =>
               /\ analyses'[j].status = "pending"
               /\ id > Len(runs)
          /\ RowConsistent(analyses'[j], runs'[id])
          /\ analyses'[j].status \in {"running", "completed"} => analyses'[j].startedAt # NULL
          /\ runs'[id].step = "caught" => analyses'[j].status = "failed"
          /\ runs'[id].step = "rejected" /\ runs[id].step # "rejected" =>
               \E i \in 1..Len(analyses) : analyses[i] = analyses'[j]]_vars

\* One analysis has completed with results, and another has failed with an
\* error message without ever having been running: the UPDATE to running
\* was rejected and nothing was fetched.
C28_Witness ==
  \E a, b \in 1..Len(analyses) :
    /\ analyses[a].status = "completed" /\ analyses[a].results # NULL
    /\ analyses[b].status = "failed" /\ analyses[b].errorMessage = Some("Unknown error")
    /\ analyses[b].startedAt = NULL
    /\ runs[analyses[b].id].step = "caught"
    /\ runs[analyses[b].id].startEvents = NULL

====
